---- MODULE Spec2Model ----
(***************************************************************************)
(* A model of the cache-consistency engine of AmplifyQuery                 *)
(* (src/service.ts, src/singleton.ts, src/query.ts): the query-key scheme, *)
(* the optimistic create/update/delete/upsert protocol with its commit and *)
(* rollback, the batch variants, the read-through resolver and the         *)
(* real-time merge of observeQuery emissions.                              *)
(*                                                                         *)
(* The TanStack QueryClient and the GraphQL transport are external to the  *)
(* repository.  The QueryClient is modelled by the variable queryCache and *)
(* the operators GetQueryData / SetQueryData / InvalidateQueries /         *)
(* RemoveQueries (TanStack Query v5: writing undefined is a no-op, a write *)
(* clears the invalidation flag).  The transport is modelled by the        *)
(* variable server and by the responses the settle actions draw.           *)
(***************************************************************************)
EXTENDS Integers, Sequences, FiniteSets, TLC

VARIABLES
    queryCache,   \* the QueryClient's query cache: key -> [t, l, inv]
    server,       \* the backend's records: id -> record or NoRecord
    op,           \* one service call per caller: its position and locals
    batch,        \* the deleteList call: ids, per-item results, snapshot
    watch,        \* the collection watch of useHook (observeQuery closure)
    hist,         \* history of the watch's emissions (for the claims only)
    read,         \* the list / customList call: options, position, result
    auth,         \* the service's currentAuthMode and the calls that touch it
    clients       \* query.ts: queryClient, internalQueryClient and the flag

vars == <<queryCache, server, op, batch, watch, hist, read, auth, clients>>

----------------------------------------------------------------------------
(* Bounds of the model *)

NumIds == 2        \* record ids in play
NumProcs == 2      \* concurrent callers
MaxConfigure == 2  \* internal clients configure creates
MaxBatch == 2      \* length of a deleteList id list
MaxEmits == 2      \* observeQuery emissions per behaviour

IdPool == <<"a", "b", "c", "d">>
Ids == {IdPool[i] : i \in 1..NumIds}
Procs == 1..NumProcs

----------------------------------------------------------------------------
(* Records.  A record maps the model's fields to strings; Missing stands   *)
(* for an absent (undefined) field.                                        *)

ModelName == "Todo"
Missing == "_"
Rels == {"A", "B"}

NoRecord == [id |-> Missing, dailyId |-> Missing, dailyPlanId |-> Missing,
             updatedAt |-> Missing, title |-> Missing]

Fields == {"id", "dailyId", "dailyPlanId", "updatedAt", "title"}

FieldOf(rec, f) == IF f \in Fields THEN rec[f] ELSE Missing

\* { ...prev, ...upd }: the fields upd carries win
Merge(prev, upd) ==
    [id        |-> IF upd.id # Missing THEN upd.id ELSE prev.id,
     dailyId   |-> IF upd.dailyId # Missing THEN upd.dailyId ELSE prev.dailyId,
     dailyPlanId |-> IF upd.dailyPlanId # Missing THEN upd.dailyPlanId ELSE prev.dailyPlanId,
     updatedAt |-> IF upd.updatedAt # Missing THEN upd.updatedAt ELSE prev.updatedAt,
     title     |-> IF upd.title # Missing THEN upd.title ELSE prev.title]

RelOf(id) == IF id \in {"a", "c"} THEN "A" ELSE "B"

\* the record the backend holds for id before any call of the behaviour
StoredRecord(id) == [id |-> id, dailyId |-> RelOf(id), dailyPlanId |-> Missing,
                     updatedAt |-> "t1", title |-> "x"]

----------------------------------------------------------------------------
(* Query keys *)

itemKey(id) == <<ModelName, "item", id>>
TopKey == <<ModelName>>
FilterKey == <<ModelName, "filter", "{f}">>
RelKey(r) == <<ModelName, "Daily", r, "query", "listByDaily", "{args}">>
CurrentIdKey == <<ModelName, "currentId">>

\* the key customList builds for a query by dailyPlanId: the relation name
\* is the field name without its trailing "Id", first letter in upper case
PlanKey(r) == <<ModelName, "DailyPlan", r, "query", "listByDailyPlan", "{args}">>

\* the top-level list key of another model's service
OtherKey == <<"Other">>

Keys == {itemKey(i) : i \in Ids} \cup {TopKey, FilterKey, CurrentIdKey, OtherKey}
            \cup {RelKey(r) : r \in Rels} \cup {PlanKey(r) : r \in Rels}

isItemKeyForModel(k) == Len(k) >= 2 /\ k[1] = ModelName /\ k[2] = "item"

\* queryKey.length > 3 && typeof queryKey[1] === "string" && typeof queryKey[2] === "string"
IsRelationalQuery(k) == Len(k) > 3

\* the names the program takes apart, as the sequences of their characters
Spell ==
    [Daily |-> <<"D", "a", "i", "l", "y">>,
     DailyPlan |-> <<"D", "a", "i", "l", "y", "P", "l", "a", "n">>,
     query |-> <<"q", "u", "e", "r", "y">>,
     dailyId |-> <<"d", "a", "i", "l", "y", "I", "d">>,
     dailyPlanId |-> <<"d", "a", "i", "l", "y", "P", "l", "a", "n", "I", "d">>,
     score |-> <<"s", "c", "o", "r", "e">>,
     status |-> <<"s", "t", "a", "t", "u", "s">>]

\* the string of a sequence of strings
RECURSIVE Concat(_)
Concat(ss) == IF ss = <<>> THEN "" ELSE Head(ss) \o Concat(Tail(ss))

\* String.prototype.toLowerCase / toUpperCase, character by character
toLowerCase(s) ==
    [j \in 1..Len(s) |->
        IF s[j] = "D" THEN "d" ELSE IF s[j] = "P" THEN "p" ELSE IF s[j] = "I" THEN "i"
        ELSE s[j]]

\* `${relationName.toLowerCase()}Id`
RelationField(k) == Concat(toLowerCase(Spell[k[2]])) \o "Id"

BelongsToRelation(rec, k) == FieldOf(rec, RelationField(k)) = k[3]

IsPrefix(p, k) == Len(p) <= Len(k) /\ \A i \in 1..Len(p) : p[i] = k[i]

----------------------------------------------------------------------------
(* The QueryClient.  An entry is [t, l, inv]: t = "none" (no query),       *)
(* "undef" (a query without data), "null", "item" (l = <<record>>) or      *)
(* "list"; inv is the query's isInvalidated flag.                          *)

NoQuery == [t |-> "none", l |-> <<>>, inv |-> FALSE]
Undef == [t |-> "undef", l |-> <<>>]
Null == [t |-> "null", l |-> <<>>]
Item(rec) == [t |-> "item", l |-> <<rec>>]
List(s) == [t |-> "list", l |-> s]

GetQueryData(c, k) == IF c[k].t = "none" THEN Undef ELSE [t |-> c[k].t, l |-> c[k].l]

\* setQueryData(key, data): undefined data writes nothing
SetQueryData(c, k, d) ==
    IF d.t = "undef" THEN c
    ELSE [c EXCEPT ![k] = [t |-> d.t, l |-> d.l, inv |-> FALSE]]

\* invalidateQueries({ queryKey: prefix })
InvalidateQueries(c, prefix) ==
    [k \in Keys |->
        IF c[k].t # "none" /\ IsPrefix(prefix, k) THEN [c[k] EXCEPT !.inv = TRUE] ELSE c[k]]

InvalidateAll(c, prefixes) ==
    [k \in Keys |->
        IF c[k].t # "none" /\ \E p \in prefixes : IsPrefix(p, k)
        THEN [c[k] EXCEPT !.inv = TRUE] ELSE c[k]]

RemoveQueries(c, k) == [c EXCEPT ![k] = NoQuery]

\* JavaScript truthiness of a cached value: arrays (also empty) and records
Truthy(d) == d.t \in {"item", "list"}

\* Array.isArray(oldData) ? oldData : []
OldItems(d) == IF d.t = "list" THEN d.l ELSE <<>>

HasId(s, id) == \E i \in 1..Len(s) : s[i].id = id

ReplaceById(s, id, rec) == [i \in 1..Len(s) |-> IF s[i].id = id THEN rec ELSE s[i]]

MergeById(s, id, upd) == [i \in 1..Len(s) |-> IF s[i].id = id THEN Merge(s[i], upd) ELSE s[i]]

RemoveIds(s, ids) == SelectSeq(s, LAMBDA r : r.id \notin ids)

\* a variant of the resolver without the exclusion of the singleton marker
findRelatedQueryKeys_WithMarker(c) ==
    {k \in Keys : /\ c[k].t # "none"
                  /\ k[1] = ModelName
                  /\ ~isItemKeyForModel(k)}

findRelatedQueryKeys(c) ==
    {k \in Keys : /\ c[k].t # "none"
                  /\ k[1] = ModelName
                  /\ ~isItemKeyForModel(k)
                  /\ ~(Len(k) >= 2 /\ k[2] = "currentId")}

\* the cached data of every key, without the invalidation flags
DataOf(c) == [k \in Keys |-> GetQueryData(c, k)]

----------------------------------------------------------------------------
(* Snapshot map (previousDataMap): key -> prior data, NotSaved for a key   *)
(* the map does not hold.                                                  *)

NotSaved == [t |-> "unsaved", l |-> <<>>]
EmptySnap == [k \in Keys |-> NotSaved]

rollbackCache(c, snap) ==
    [k \in Keys |-> IF snap[k] = NotSaved THEN c[k] ELSE SetQueryData(c, k, snap[k])[k]]

----------------------------------------------------------------------------
(* The transport (getClient().models[modelName]): what it answers, given   *)
(* the backend's records.                                                  *)

\* the record a successful create stores and returns; the backend may
\* assign the id sid itself
ServerCreate(newItem, sid) == [Merge(NoRecord, newItem) EXCEPT !.id = sid, !.updatedAt = "t1"]

\* the record a successful update stores and returns
ServerUpdate(stored, payload) == [Merge(stored, payload) EXCEPT !.updatedAt = "t2"]

----------------------------------------------------------------------------
(* create: snapshot and optimistic apply *)

CreateTouches(k, newItem) ==
    IF IsRelationalQuery(k) THEN BelongsToRelation(newItem, k)
    ELSE Len(k) < 3 /\ ~(Len(k) >= 2 /\ k[2] = "currentId")

----------------------------------------------------------------------------
(* update / upsert: performOptimisticUpdate and handleCacheUpdateOnSuccess *)

\* a variant of the list update that appends to every list key
OptimisticList_AppendsToAll(d, k, itemId, updateData, optimisticData) ==
    LET oldItems == OldItems(d)
    IN IF HasId(oldItems, itemId) THEN MergeById(oldItems, itemId, updateData)
       ELSE Append(oldItems, optimisticData)

OptimisticList(d, k, itemId, updateData, optimisticData) ==
    LET oldItems == OldItems(d)
    IN IF HasId(oldItems, itemId) THEN MergeById(oldItems, itemId, updateData)
       ELSE IF Len(k) = 1 THEN Append(oldItems, optimisticData)
       ELSE oldItems

\* the previousDataMap performOptimisticUpdate returns
OptimisticSnapshot(c, keys, itemId, updateData) ==
    IF updateData.id = Missing \/ updateData.id # itemId THEN EmptySnap
    ELSE [k \in Keys |->
            IF k = itemKey(itemId) \/ (k \in keys /\ ~isItemKeyForModel(k))
            THEN GetQueryData(c, k) ELSE NotSaved]

\* the cache performOptimisticUpdate leaves
performOptimisticUpdate(c, keys, itemId, updateData) ==
    LET OptimisticData ==
            LET prev == GetQueryData(c, itemKey(itemId))
            IN IF prev.t = "item" THEN Merge(prev.l[1], updateData) ELSE updateData
    IN
    IF updateData.id = Missing \/ updateData.id # itemId THEN c
    ELSE LET optimisticData == OptimisticData
             c1 == SetQueryData(c, itemKey(itemId), Item(optimisticData))
         IN [k \in Keys |->
               IF k \in keys /\ ~isItemKeyForModel(k)
               THEN SetQueryData(c1, k,
                        List(OptimisticList(GetQueryData(c1, k), k, itemId,
                                            updateData, optimisticData)))[k]
               ELSE c1[k]]

handleCacheUpdateOnSuccess(c, keys, itemId, updatedItem) ==
    LET SuccessList(d) ==
            LET oldItems == OldItems(d)
            IN IF HasId(oldItems, itemId) THEN ReplaceById(oldItems, itemId, updatedItem)
               ELSE Append(oldItems, updatedItem)
    IN
    IF updatedItem.id = Missing \/ updatedItem.id # itemId THEN c
    ELSE LET c1 == SetQueryData(c, itemKey(itemId), Item(updatedItem))
         IN [k \in Keys |->
               IF k \in keys /\ (IsRelationalQuery(k) => BelongsToRelation(updatedItem, k))
               THEN SetQueryData(c1, k,
                        List(SuccessList(GetQueryData(c1, k))))[k]
               ELSE c1[k]]

----------------------------------------------------------------------------
(* delete: snapshot, optimistic removal, success invalidation *)

----------------------------------------------------------------------------
(* get: cache check, transport answer, cache population *)

\* the cached item get returns without a fetch, NoRecord if it must fetch
GetCached(c, id, forceRefresh) ==
    LET cachedItem == GetQueryData(c, itemKey(id))
    IN IF ~forceRefresh /\ cachedItem.t = "item" /\ cachedItem.l[1].id = id
       THEN cachedItem.l[1] ELSE NoRecord

\* a cached item under a foreign id is removed before the fetch
GetCacheCheck(c, id, forceRefresh) ==
    LET cachedItem == GetQueryData(c, itemKey(id))
    IN IF ~forceRefresh /\ cachedItem.t = "item" /\ cachedItem.l[1].id # id
       THEN RemoveQueries(c, itemKey(id)) ELSE c

GetList(d, id, item) ==
    LET oldItems == OldItems(d)
    IN IF HasId(oldItems, id) THEN ReplaceById(oldItems, id, item)
       ELSE Append(oldItems, item)

\* the cache after get received item (NoRecord: nothing) from the transport
GetPopulate(c, id, item) ==
    IF item = NoRecord \/ item.id = Missing \/ item.id # id THEN c
    ELSE LET c1 == SetQueryData(c, itemKey(id), Item(item))
         IN [k \in Keys |->
               IF k \in findRelatedQueryKeys(c1) /\ Len(k) > 1 /\ k[2] # id
               THEN SetQueryData(c1, k, List(GetList(GetQueryData(c1, k), id, item)))[k]
               ELSE c1[k]]

\* what the transport's get may answer: the stored record, nothing, or (an
\* array answer without the requested id) a record stored under another id
GetAnswers(srv, id) ==
    {srv[id]} \cup {srv[sid] : sid \in {i \in Ids : srv[i] # NoRecord}}

----------------------------------------------------------------------------
(* The callers.  op[p] holds the call's position (pc) and its locals; a    *)
(* caller that is a mounted useSigletoneHook view also holds the view's    *)
(* attemptedAutoCreateForIdRef in attempted.                               *)

NoData == [k \in Keys |-> Undef]

IdleOp ==
    [kind |-> "none", pc |-> "idle", id |-> Missing, data |-> NoRecord,
     item |-> NoRecord, snap |-> EmptySnap, keys |-> {}, pre |-> NoData,
     resp |-> "none", ret |-> "none", existing |-> FALSE, branch |-> "none",
     mutation |-> FALSE, attempted |-> Missing]

Returned(o, value, rec) == [o EXCEPT !.pc = "done", !.ret = value, !.item = rec]

\* upsertCurrent goes on after its create: the cache-sync get
AfterCreate(o, value, rec) ==
    IF o.kind = "upsertCurrent"
    THEN [o EXCEPT !.pc = "get_wait", !.branch = "sync", !.ret = value, !.item = rec]
    ELSE Returned(o, value, rec)

\* payloads of create / update / upsert: Partial<T>
Payloads ==
    {[id |-> i, dailyId |-> r, dailyPlanId |-> Missing,
     updatedAt |-> Missing, title |-> "y"] :
        i \in Ids \cup {Missing}, r \in Rels \cup {Missing}}

\* payloads of create with both relation fields
PlanPayloads ==
    {[id |-> i, dailyId |-> r, dailyPlanId |-> q, updatedAt |-> Missing, title |-> "y"] :
        i \in Ids \cup {Missing}, r \in Rels \cup {Missing}, q \in Rels \cup {Missing}}

\* ---- create ----

CallCreate(p, data, isNull) ==
    /\ op[p].pc = "idle"
    /\ op' = [op EXCEPT ![p] =
                IF isNull THEN Returned([@ EXCEPT !.kind = "create", !.pre = DataOf(queryCache)],
                                        "null", NoRecord)
                ELSE [@ EXCEPT !.kind = "create", !.pc = "create_apply", !.data = data,
                               !.pre = DataOf(queryCache)]]
    /\ UNCHANGED <<queryCache, server, batch, watch, hist, read, auth, clients>>

\* after the auth await: newItem, snapshot, optimistic apply; uuid stands for
\* randomUUID()
CreateApply(p, uuid) ==
    LET CreateOptimistic(c, newItem) ==
            LET c1 == SetQueryData(c, itemKey(newItem.id), Item(newItem))
            IN [k \in Keys |->
                  IF k \in findRelatedQueryKeys(c) /\ CreateTouches(k, newItem)
                  THEN SetQueryData(c1, k, List(Append(OldItems(GetQueryData(c1, k)), newItem)))[k]
                  ELSE c1[k]]
        CreateSnapshot(c, newItem) ==
            [k \in Keys |->
                IF k = itemKey(newItem.id) THEN GetQueryData(c, k)
                ELSE IF k \in findRelatedQueryKeys(c) /\ CreateTouches(k, newItem)
                          /\ Truthy(GetQueryData(c, k))
                     THEN GetQueryData(c, k)
                ELSE NotSaved]
    IN
    /\ op[p].pc = "create_apply"
    /\ IF op[p].data.id # Missing THEN uuid = op[p].data.id
       ELSE queryCache[itemKey(uuid)].t = "none" /\ server[uuid] = NoRecord
    /\ LET newItem == [op[p].data EXCEPT !.id = IF @ # Missing THEN @ ELSE uuid]
       IN /\ queryCache' = CreateOptimistic(queryCache, newItem)
          /\ op' = [op EXCEPT ![p] = [@ EXCEPT !.pc = "create_wait", !.id = newItem.id,
                                               !.item = newItem,
                                               !.snap = CreateSnapshot(queryCache, newItem)]]
    /\ UNCHANGED <<server, batch, watch, hist, read, auth, clients>>

\* the transport's create settles: resp is "throw", "empty" or "data"
CreateSettle(p, resp, sid) ==
    LET \* the success branch of create: overwrite the item key, invalidate
        CreateCommit(c, newItem, createdItem) ==
            LET c1 == SetQueryData(c, itemKey(newItem.id), Item(createdItem))
                relPrefixes == (IF newItem.dailyId # Missing
                                THEN {<<ModelName, "Daily", newItem.dailyId>>} ELSE {})
                               \cup (IF newItem.dailyPlanId # Missing
                                     THEN {<<ModelName, "DailyPlan", newItem.dailyPlanId>>} ELSE {})
            IN InvalidateAll(c1, relPrefixes \cup {<<ModelName>>})
    IN
    /\ op[p].pc = "create_wait"
    /\ resp = "data" => server[op[p].id] = NoRecord /\ server[sid] = NoRecord
    /\ resp # "data" => sid = op[p].id
    /\ LET newItem == op[p].item
           createdItem == ServerCreate(newItem, sid)
       IN IF resp = "data"
          THEN /\ server' = [server EXCEPT ![sid] = createdItem]
               /\ queryCache' = CreateCommit(queryCache, newItem, createdItem)
               /\ op' = [op EXCEPT ![p] = AfterCreate([@ EXCEPT !.resp = resp], "item", createdItem)]
          ELSE /\ server' = server
               /\ queryCache' = rollbackCache(queryCache, op[p].snap)
               /\ op' = [op EXCEPT ![p] = AfterCreate([@ EXCEPT !.resp = resp], "null", NoRecord)]
    /\ UNCHANGED <<batch, watch, hist, read, auth, clients>>

\* ---- update ----

CallUpdate(p, data) ==
    /\ op[p].pc = "idle"
    /\ op' = [op EXCEPT ![p] =
                IF data.id = Missing
                THEN Returned([@ EXCEPT !.kind = "update", !.pre = DataOf(queryCache)],
                              "null", NoRecord)
                ELSE [@ EXCEPT !.kind = "update", !.pc = "update_apply", !.data = data,
                               !.id = data.id, !.pre = DataOf(queryCache)]]
    /\ UNCHANGED <<queryCache, server, batch, watch, hist, read, auth, clients>>

UpdateApply(p) ==
    /\ op[p].pc = "update_apply"
    /\ LET keys == findRelatedQueryKeys(queryCache)
       IN /\ queryCache' = performOptimisticUpdate(queryCache, keys, op[p].id, op[p].data)
          /\ op' = [op EXCEPT ![p] =
                      [@ EXCEPT !.pc = "update_wait", !.keys = keys,
                                !.snap = OptimisticSnapshot(queryCache, keys, op[p].id, op[p].data)]]
    /\ UNCHANGED <<server, batch, watch, hist, read, auth, clients>>

UpdateSettle(p, resp) ==
    /\ op[p].pc = "update_wait"
    /\ resp = "data" => server[op[p].id] # NoRecord
    /\ LET updatedItem == ServerUpdate(server[op[p].id], op[p].data)
       IN IF resp = "data"
          THEN /\ server' = [server EXCEPT ![op[p].id] = updatedItem]
               /\ queryCache' = InvalidateQueries(
                                   handleCacheUpdateOnSuccess(queryCache, op[p].keys,
                                                              op[p].id, updatedItem),
                                   <<ModelName>>)
               /\ op' = [op EXCEPT ![p] = Returned([@ EXCEPT !.resp = resp], "item", updatedItem)]
          ELSE /\ server' = server
               /\ queryCache' = rollbackCache(queryCache, op[p].snap)
               /\ op' = [op EXCEPT ![p] = Returned([@ EXCEPT !.resp = resp], "null", NoRecord)]
    /\ UNCHANGED <<batch, watch, hist, read, auth, clients>>

\* ---- delete ----

\* a variant of delete's entry without the check of id
CallDelete_Unchecked(p, id) ==
    /\ op[p].pc = "idle"
    /\ op' = [op EXCEPT ![p] = [@ EXCEPT !.kind = "delete", !.pc = "delete_apply", !.id = id,
                                         !.pre = DataOf(queryCache)]]
    /\ UNCHANGED <<queryCache, server, batch, watch, hist, read, auth, clients>>

CallDelete(p, id) ==
    /\ op[p].pc = "idle"
    /\ op' = [op EXCEPT ![p] =
                IF id = Missing
                THEN Returned([@ EXCEPT !.kind = "delete", !.pre = DataOf(queryCache)],
                              "false", NoRecord)
                ELSE [@ EXCEPT !.kind = "delete", !.pc = "delete_apply", !.id = id,
                               !.pre = DataOf(queryCache)]]
    /\ UNCHANGED <<queryCache, server, batch, watch, hist, read, auth, clients>>

DeleteApply(p) ==
    LET DeleteOptimistic(c, id) ==
            LET c1 == SetQueryData(c, itemKey(id), Null)
            IN [k \in Keys |->
                  IF k \in findRelatedQueryKeys(c)
                  THEN SetQueryData(c1, k, List(RemoveIds(OldItems(GetQueryData(c1, k)), {id})))[k]
                  ELSE c1[k]]
        DeleteSnapshot(c, id) ==
            [k \in Keys |->
                IF k = itemKey(id) THEN GetQueryData(c, k)
                ELSE IF k \in findRelatedQueryKeys(c) /\ Truthy(GetQueryData(c, k))
                     THEN GetQueryData(c, k)
                ELSE NotSaved]
    IN
    /\ op[p].pc = "delete_apply"
    /\ queryCache' = DeleteOptimistic(queryCache, op[p].id)
    /\ op' = [op EXCEPT ![p] =
                [@ EXCEPT !.pc = "delete_wait", !.keys = findRelatedQueryKeys(queryCache),
                          !.snap = DeleteSnapshot(queryCache, op[p].id)]]
    /\ UNCHANGED <<server, batch, watch, hist, read, auth, clients>>

\* the transport's delete settles: resp is "throw", "errors" (errors and no
\* thrown error), "empty" (no data, no errors) or "ok" (the deleted record);
\* only a thrown error and non-empty errors are failures
DeleteSettle(p, resp) ==
    LET DeleteCommit(c, keys, id) == InvalidateAll(c, keys \cup {itemKey(id)})
    IN
    /\ op[p].pc = "delete_wait"
    /\ resp = "ok" => server[op[p].id] # NoRecord
    /\ IF resp \in {"ok", "empty"}
       THEN /\ server' = IF resp = "ok" THEN [server EXCEPT ![op[p].id] = NoRecord] ELSE server
            /\ queryCache' = DeleteCommit(queryCache, op[p].keys, op[p].id)
            /\ op' = [op EXCEPT ![p] = Returned([@ EXCEPT !.resp = resp], "true", NoRecord)]
       ELSE /\ server' = server
            /\ queryCache' = rollbackCache(queryCache, op[p].snap)
            /\ op' = [op EXCEPT ![p] = Returned([@ EXCEPT !.resp = resp], "false", NoRecord)]
    /\ UNCHANGED <<batch, watch, hist, read, auth, clients>>

\* ---- get ----

CallGet(p, id, forceRefresh) ==
    /\ op[p].pc = "idle"
    /\ LET cached == GetCached(queryCache, id, forceRefresh)
           o == [op[p] EXCEPT !.kind = "get", !.id = id, !.pre = DataOf(queryCache)]
       IN /\ queryCache' = GetCacheCheck(queryCache, id, forceRefresh)
          /\ op' = [op EXCEPT ![p] =
                      IF cached # NoRecord THEN Returned(o, "item", cached)
                      ELSE [o EXCEPT !.pc = "get_wait"]]
    /\ UNCHANGED <<server, batch, watch, hist, read, auth, clients>>

\* where a call goes on once its get returned item (NoRecord: null)
AfterGet(o, item) ==
    IF o.kind = "upsert"
    THEN [o EXCEPT !.pc = "upsert_apply", !.existing = (item # NoRecord)]
    ELSE IF o.kind = "upsertCurrent"
    THEN IF o.branch = "sync" THEN Returned(o, o.ret, o.item)
         ELSE IF item # NoRecord
         THEN [o EXCEPT !.pc = "update_apply", !.branch = "update", !.existing = TRUE]
         ELSE [o EXCEPT !.pc = "create_apply", !.branch = "create"]
    ELSE Returned(o, IF item = NoRecord THEN "null" ELSE "item", item)

\* the transport's get settles: resp is "throw" or "data" (item, maybe none)
GetSettle(p, resp, item) ==
    /\ op[p].pc = "get_wait"
    /\ IF resp = "data" THEN item \in GetAnswers(server, op[p].id) ELSE item = NoRecord
    /\ queryCache' = GetPopulate(queryCache, op[p].id, item)
    /\ op' = [op EXCEPT ![p] = AfterGet(@, item)]
    /\ UNCHANGED <<server, batch, watch, hist, read, auth, clients>>

\* ---- upsert ----

CallUpsert(p, data) ==
    /\ op[p].pc = "idle"
    /\ op' = [op EXCEPT ![p] =
                IF data.id = Missing
                THEN Returned([@ EXCEPT !.kind = "upsert", !.pre = DataOf(queryCache)],
                              "null", NoRecord)
                ELSE [@ EXCEPT !.kind = "upsert", !.pc = "upsert_get", !.data = data,
                               !.id = data.id, !.pre = DataOf(queryCache)]]
    /\ UNCHANGED <<queryCache, server, batch, watch, hist, read, auth, clients>>

\* service.get(data.id): served from the cache, or a fetch
UpsertGet(p) ==
    /\ op[p].pc = "upsert_get"
    /\ LET cached == GetCached(queryCache, op[p].id, FALSE)
       IN /\ queryCache' = GetCacheCheck(queryCache, op[p].id, FALSE)
          /\ op' = [op EXCEPT ![p] =
                      IF cached # NoRecord THEN AfterGet(@, cached)
                      ELSE [@ EXCEPT !.pc = "get_wait"]]
    /\ UNCHANGED <<server, batch, watch, hist, read, auth, clients>>

UpsertApply(p) ==
    /\ op[p].pc = "upsert_apply"
    /\ LET keys == findRelatedQueryKeys(queryCache)
       IN /\ queryCache' = performOptimisticUpdate(queryCache, keys, op[p].id, op[p].data)
          /\ op' = [op EXCEPT ![p] =
                      [@ EXCEPT !.pc = "upsert_wait", !.keys = keys,
                                !.branch = IF op[p].existing THEN "update" ELSE "create",
                                !.snap = OptimisticSnapshot(queryCache, keys, op[p].id, op[p].data)]]
    /\ UNCHANGED <<server, batch, watch, hist, read, auth, clients>>

\* the transport's update (existing item) or create settles
UpsertSettle(p, resp, sid) ==
    /\ op[p].pc = "upsert_wait"
    /\ resp = "data" =>
          IF op[p].existing THEN server[op[p].id] # NoRecord /\ sid = op[p].id
          ELSE server[op[p].id] = NoRecord /\ server[sid] = NoRecord
    /\ resp # "data" => sid = op[p].id
    /\ LET answer == IF op[p].existing THEN ServerUpdate(server[op[p].id], op[p].data)
                     ELSE ServerCreate(op[p].data, sid)
       IN IF resp = "data"
          THEN /\ server' = [server EXCEPT ![sid] = answer]
               /\ queryCache' = handleCacheUpdateOnSuccess(queryCache, op[p].keys,
                                                           op[p].id, answer)
               /\ op' = [op EXCEPT ![p] = Returned([@ EXCEPT !.resp = resp], "item", answer)]
          ELSE /\ server' = server
               /\ queryCache' = rollbackCache(queryCache, op[p].snap)
               /\ op' = [op EXCEPT ![p] = Returned([@ EXCEPT !.resp = resp], "null", NoRecord)]
    /\ UNCHANGED <<batch, watch, hist, read, auth, clients>>

----------------------------------------------------------------------------
(* Initial states: a backend holding some of the records, and a cache some *)
(* earlier reads and mounted hooks left behind.                            *)

IdSeq == [i \in 1..NumIds |-> IdPool[i]]

\* the stored records of the ids in S, in id order
RecsOf(srv, S) ==
    LET ids == SelectSeq(IdSeq, LAMBDA i : srv[i] # NoRecord /\ i \in S)
    IN [j \in 1..Len(ids) |-> srv[ids[j]]]

\* createAmplifyService(modelName, "apiKey"): the service's closure variable
\* currentAuthMode; for the claims, the mode the original service was given
\* (own), the mode the last withAuthMode was called with (clone), the
\* service whose operation last read the mode (by), the mode it read (used)
\* and the last call
IdleAuth == [currentAuthMode |-> "apiKey", own |-> "apiKey", clone |-> "none",
             by |-> "none", used |-> "none", call |-> "none"]

\* query.ts at module load: queryClient is the internal client, no external
\* client is attached; config is the queryClientConfig in force, made the
\* number of internal clients created by configure; for the claims,
\* attached is the client the last attachQueryClient was given ("none"
\* after detachQueryClient)
IdleClients == [queryClient |-> <<"internal", 0>>, internalQueryClient |-> <<"internal", 0>>,
                isExternalClientAttached |-> FALSE, config |-> "c0", made |-> 0,
                attached |-> <<"none", 0>>]

InitServers == {[i \in Ids |-> IF i \in S THEN StoredRecord(i) ELSE NoRecord] : S \in SUBSET Ids}

Entry(t, l) == [t |-> t, l |-> l, inv |-> FALSE]

\* a cache over the backend srv: itemSt, topSt, relSt, filtSt say what each
\* key holds
CacheOver(srv, itemSt, topSt, relSt, filtSt) ==
    [k \in Keys |->
        IF isItemKeyForModel(k)
        THEN IF itemSt[k[3]] = "item" THEN Entry("item", <<srv[k[3]]>>)
             ELSE Entry(itemSt[k[3]], <<>>)
        ELSE IF k = TopKey
        THEN Entry(topSt, IF topSt = "list" THEN RecsOf(srv, Ids) ELSE <<>>)
        ELSE IF k = FilterKey
        THEN Entry(filtSt, IF filtSt = "list" THEN RecsOf(srv, Ids) ELSE <<>>)
        ELSE IF k = CurrentIdKey \/ k = OtherKey \/ k[2] = "DailyPlan" THEN NoQuery
        ELSE Entry(relSt[k[3]],
                   IF relSt[k[3]] = "list"
                   THEN RecsOf(srv, {i \in Ids : srv[i].dailyId = k[3]}) ELSE <<>>)]


NoPrevItems == [i \in Ids |-> NotSaved]

IdleBatch == [pc |-> "idle", ids |-> <<>>, items |-> <<>>, resps |-> <<>>, success |-> <<>>,
              failed |-> <<>>, keys |-> {}, snap |-> EmptySnap, prevItems |-> NoPrevItems,
              pre |-> NoData, ret |-> "none"]

\* the collection watch of useHook: isMounted and lastSynced of the
\* realtime effect's closure, the hook's queryKey, and whether the effect
\* has subscribed at all; for the item watch of useItemHook also
\* lastMissingConfirmAt, "0" or "set" (the time of a confirmation)
IdleWatch == [mounted |-> FALSE, subscribed |-> FALSE, key |-> TopKey,
              lastSynced |-> "undefined", lastMissingConfirmAt |-> "0"]

\* what the watch was fed: the number of emissions, the number the handler
\* took while mounted, the last of these (items, isSynced), whether it
\* repeated the one before, the branch the handler took for it, the keys it
\* wrote, and whether an emission has been discarded by the empty guard
NoHist == [n |-> 0, handled |-> 0, last |-> <<>>, lastSynced |-> FALSE, same |-> FALSE,
           act |-> "none", wrote |-> {}, discarded |-> FALSE]

\* a list / customList call not started: its options, the query key it
\* built, what it returned (out: "cache", "items", "empty", "thrown"), the
\* number of transport calls it made, the last answer of the transport
\* (resp) and the items it held
IdleRead == [pc |-> "idle", kind |-> "none", filter |-> [has |-> FALSE, clauses |-> <<>>],
             forceRefresh |-> FALSE,
             throwOnError |-> FALSE, key |-> TopKey, items |-> <<>>, out |-> "none",
             calls |-> 0, resp |-> "none", fetched |-> <<>>, pre |-> NoData]

Init ==
    /\ server \in InitServers
    /\ queryCache \in
          {CacheOver(server, itemSt, topSt, relSt, filtSt) :
              itemSt \in {f \in [Ids -> {"none", "null", "item"}] :
                              \A i \in Ids : f[i] = "item" => server[i] # NoRecord},
              topSt \in {"none", "undef", "list"},
              relSt \in [Rels -> {"none", "undef", "list"}],
              filtSt \in {"none", "list"}}
    /\ op = [p \in Procs |-> IdleOp]
    /\ batch = IdleBatch
    /\ watch = IdleWatch
    /\ hist = NoHist
    /\ read = IdleRead
    /\ auth = IdleAuth
    /\ clients = IdleClients

----------------------------------------------------------------------------
(* Spec: one caller issues one create, update, delete, upsert or get.      *)

Caller == CHOOSE p \in Procs : \A q \in Procs : p <= q


Next ==
    \/ \E data \in Payloads, isNull \in BOOLEAN : CallCreate(Caller, data, isNull)
    \/ \E uuid \in Ids : CreateApply(Caller, uuid)
    \/ \E resp \in {"throw", "empty", "data"}, sid \in Ids : CreateSettle(Caller, resp, sid)
    \/ \E data \in Payloads : CallUpdate(Caller, data)
    \/ UpdateApply(Caller)
    \/ \E resp \in {"throw", "empty", "data"} : UpdateSettle(Caller, resp)
    \/ \E id \in Ids \cup {Missing} : CallDelete(Caller, id)
    \/ DeleteApply(Caller)
    \/ \E resp \in {"throw", "errors", "empty", "ok"} : DeleteSettle(Caller, resp)
    \/ \E id \in Ids, forceRefresh \in BOOLEAN : CallGet(Caller, id, forceRefresh)
    \/ \E resp \in {"throw", "data"}, item \in {NoRecord} \cup {server[i] : i \in Ids} :
          GetSettle(Caller, resp, item)
    \/ \E data \in Payloads : CallUpsert(Caller, data)
    \/ UpsertGet(Caller)
    \/ UpsertApply(Caller)
    \/ \E resp \in {"throw", "empty", "data"}, sid \in Ids : UpsertSettle(Caller, resp, sid)

Spec == Init /\ [][Next]_vars

----------------------------------------------------------------------------
(* Claims checked under Spec *)

Mutations == {"create", "update", "delete", "upsert"}

\* the call of p is a mutation whose transport call failed, and it returned
FailedMutation(p) ==
    /\ op[p].pc = "done"
    /\ op[p].kind \in Mutations
    /\ op[p].resp \in {"throw", "empty", "errors"}

\* C1: rollback exactness.  When a single create, update, delete or upsert
\* whose transport call failed (a throw, or an empty data payload) returns,
\* with no other cache writer in between, every key of the type (the item
\* key and every list key) holds the data it held when the call began,
\* keys without data and keys the optimistic write did not touch included.
C1_RollbackExactness ==
    \A p \in Procs : FailedMutation(p) => DataOf(queryCache) = op[p].pre

\* C2: ID consistency.  In every reachable state a non-null record cached
\* under the item key of id carries that id.
C2_IdConsistency ==
    \A i \in Ids :
        queryCache[itemKey(i)].t = "item" => queryCache[itemKey(i)].l[1].id = i

\* C3: failure propagation.  A create, update, delete or upsert whose
\* transport call failed ends rejected: the caller receives an error, not a
\* normal return value.
C3_FailurePropagates ==
    \A p \in Procs : FailedMutation(p) => op[p].ret = "rejected"

\* the update of p succeeded and moved the record from relation a to b
RelationChanged(p, a, b) ==
    /\ op[p].pc = "done" /\ op[p].kind = "update" /\ op[p].resp = "data"
    /\ op[p].pre[itemKey(op[p].id)] = Item(StoredRecord(op[p].id))
    /\ StoredRecord(op[p].id).dailyId = a
    /\ op[p].item.dailyId = b
    /\ a # b

\* C7: relation membership.  After the commit step of a successful update
\* that changed the record's relation field from A to B, the record is in no
\* cached relation-scoped list keyed by A and in every cached one keyed by B.
C7_RelationMembership ==
    \A p \in Procs : \A a \in Rels, b \in Rels :
        RelationChanged(p, a, b) =>
            /\ queryCache[RelKey(a)].t = "list" => ~HasId(queryCache[RelKey(a)].l, op[p].id)
            /\ queryCache[RelKey(b)].t = "list" => HasId(queryCache[RelKey(b)].l, op[p].id)

----------------------------------------------------------------------------
(* The singleton adapter: upsertCurrent *)

\* the id getModelId() derives (the current user's id)
SingletonId == IdPool[1]

\* payloads of upsertCurrent: Partial<Omit<T, "id">>
SingletonPayloads ==
    {[id |-> Missing, dailyId |-> r, dailyPlanId |-> Missing,
     updatedAt |-> Missing, title |-> "y"] :
        r \in Rels \cup {Missing}}

CallUpsertCurrent(p, data) ==
    /\ op[p].pc = "idle"
    /\ op' = [op EXCEPT ![p] = [@ EXCEPT !.kind = "upsertCurrent", !.pc = "uc_id",
                                         !.data = data, !.pre = DataOf(queryCache)]]
    /\ UNCHANGED <<queryCache, server, batch, watch, hist, read, auth, clients>>

\* getModelId() settles; on success the forced-refresh get is issued
UcResolveId(p, resolved) ==
    /\ op[p].pc = "uc_id"
    /\ op' = [op EXCEPT ![p] =
                IF resolved
                THEN [@ EXCEPT !.pc = "get_wait", !.id = SingletonId, !.branch = "check",
                               !.data = [op[p].data EXCEPT !.id = SingletonId]]
                ELSE Returned(@, "null", NoRecord)]
    /\ UNCHANGED <<queryCache, server, batch, watch, hist, read, auth, clients>>

----------------------------------------------------------------------------
(* SpecRace: two callers run upsertCurrent for the same derived id, their  *)
(* awaited steps interleaving freely.                                      *)

InitRace ==
    /\ server \in InitServers
    /\ queryCache \in {CacheOver(server, itemSt, topSt, [r \in Rels |-> "none"], "none") :
                          itemSt \in {f \in [Ids -> {"none", "item"}] :
                                          \A i \in Ids : f[i] = "item" => server[i] # NoRecord},
                          topSt \in {"none", "list"}}
    /\ op = [p \in Procs |-> IdleOp]
    /\ batch = IdleBatch
    /\ watch = IdleWatch
    /\ hist = NoHist
    /\ read = IdleRead
    /\ auth = IdleAuth
    /\ clients = IdleClients

NextRace ==
    \E p \in Procs :
        \/ \E data \in SingletonPayloads : CallUpsertCurrent(p, data)
        \/ \E resolved \in BOOLEAN : UcResolveId(p, resolved)
        \/ \E resp \in {"throw", "data"}, item \in {NoRecord} \cup {server[i] : i \in Ids} :
              GetSettle(p, resp, item)
        \/ UpdateApply(p)
        \/ \E resp \in {"throw", "empty", "data"} : UpdateSettle(p, resp)
        \/ \E uuid \in Ids : CreateApply(p, uuid)
        \/ \E resp \in {"throw", "empty", "data"}, sid \in Ids : CreateSettle(p, resp, sid)

SpecRace == InitRace /\ [][NextRace]_vars

\* C4: singleton create-race safety.  Of two concurrent upsertCurrent calls
\* with the same derived id, under every interleaving of their awaited
\* steps, at most one takes the create branch.
C4_AtMostOneCreate ==
    \A p \in Procs, q \in Procs :
        (p # q /\ op[p].kind = "upsertCurrent" /\ op[q].kind = "upsertCurrent")
            => ~(op[p].branch = "create" /\ op[q].branch = "create")

\* C26: upsertCurrent's create-path precondition.  upsertCurrent takes the
\* create path only if the backend held no record with the derived id when
\* its forced-refresh existence check was answered; whenever the backend
\* holds the record at that time it takes the update path or writes nothing.
C26_CreateOnlyWhenAbsent ==
    [][\A p \in Procs :
          (/\ op[p].kind = "upsertCurrent" /\ op[p].branch = "check"
           /\ op[p].pc = "get_wait" /\ op'[p].branch = "create")
          => server[op[p].id] = NoRecord]_vars

----------------------------------------------------------------------------
(* deleteList: optimistic removal of a batch, parallel transport deletes,  *)
(* partial rollback of the failed ids, batch-level error                   *)

IdSet(ids) == {ids[i] : i \in 1..Len(ids)}

\* ids.forEach: back up each item key (previousItemsCache, previousDataMap)
\* and set it to null, one id after the other
RECURSIVE DeleteListItems(_, _, _, _)
DeleteListItems(c, snap, prev, ids) ==
    IF ids = <<>> THEN [c |-> c, snap |-> snap, prev |-> prev]
    ELSE LET id == Head(ids)
             previousItemSingle == GetQueryData(c, itemKey(id))
         IN DeleteListItems(SetQueryData(c, itemKey(id), Null),
                            [snap EXCEPT ![itemKey(id)] = previousItemSingle],
                            [prev EXCEPT ![id] = IF Truthy(previousItemSingle)
                                                 THEN previousItemSingle ELSE Null],
                            Tail(ids))

\* the whole optimistic phase: [c, snap, prev, keys]
DeleteListOptimistic(c, ids) ==
    LET keys == findRelatedQueryKeys(c)
        r == DeleteListItems(c, EmptySnap, NoPrevItems, ids)
    IN [c |-> [k \in Keys |->
                 IF k \in keys
                 THEN SetQueryData(r.c, k,
                        List(RemoveIds(OldItems(GetQueryData(r.c, k)), IdSet(ids))))[k]
                 ELSE r.c[k]],
        snap |-> [k \in Keys |->
                    IF k \in keys /\ Truthy(GetQueryData(r.c, k))
                    THEN GetQueryData(r.c, k) ELSE r.snap[k]],
        prev |-> r.prev,
        keys |-> keys]

\* partial rollback of one failed id
DeleteListRestoreOne(c, prev, keys, ids, failedId) ==
    LET \* the list a related key holds after failedId has been restored into it
        RestoredList(oldData, previousItem) ==
            IF ~Truthy(previousItem) THEN OldItems(oldData)
            ELSE IF HasId(OldItems(oldData), failedId) THEN OldItems(oldData)
            ELSE Append(OldItems(oldData), previousItem.l[1])
        c1 == IF prev[failedId] # NotSaved
              THEN SetQueryData(c, itemKey(failedId), prev[failedId]) ELSE c
    IN [k \in Keys |->
          IF k \in keys /\ Len(k) > 1 /\ k[2] \notin IdSet(ids)
          THEN SetQueryData(c1, k,
                 List(RestoredList(GetQueryData(c1, k), prev[failedId])))[k]
          ELSE c1[k]]

\* for (const failedId of results.failed)
RECURSIVE DeleteListRestore(_, _, _, _, _)
DeleteListRestore(c, prev, keys, ids, failed) ==
    IF failed = <<>> THEN c
    ELSE DeleteListRestore(DeleteListRestoreOne(c, prev, keys, ids, Head(failed)),
                           prev, keys, ids, Tail(failed))

\* id lists a caller passes: any order, repetitions allowed
IdLists == UNION {[1..n -> Ids] : n \in 0..MaxBatch}

CallDeleteList(ids) ==
    /\ batch.pc = "idle"
    /\ batch' = IF Len(ids) = 0
                THEN [batch EXCEPT !.pc = "done", !.ret = "results", !.pre = DataOf(queryCache)]
                ELSE [batch EXCEPT !.pc = "owner_wait", !.ids = ids,
                                   !.pre = DataOf(queryCache)]
    /\ UNCHANGED <<queryCache, server, op, watch, hist, read, auth, clients>>

\* getOwnerByAuthMode has settled: snapshot, optimistic removal, and the
\* transport deletes are issued
DeleteListApply ==
    /\ batch.pc = "owner_wait"
    /\ LET r == DeleteListOptimistic(queryCache, batch.ids)
       IN /\ queryCache' = r.c
          /\ batch' = [batch EXCEPT !.pc = "deleting", !.keys = r.keys, !.snap = r.snap,
                                    !.prevItems = r.prev,
                                    !.resps = [i \in 1..Len(batch.ids) |-> "pending"]]
    /\ UNCHANGED <<server, op, watch, hist, read, auth, clients>>

\* a variant of the per-item settlement that pushes every id to
\* results.success, whatever the transport answered
DeleteListItemSettle_AllSucceed(i, resp) ==
    /\ batch.pc = "deleting"
    /\ i \in 1..Len(batch.ids)
    /\ batch.resps[i] = "pending"
    /\ server' = IF resp = "ok" THEN [server EXCEPT ![batch.ids[i]] = NoRecord] ELSE server
    /\ batch' = [batch EXCEPT !.resps[i] = IF resp = "ok" THEN "ok" ELSE "failed",
                              !.success = Append(@, batch.ids[i])]
    /\ UNCHANGED <<queryCache, op, watch, hist, read, auth, clients>>

\* the transport delete of ids[i] settles: it answers without errors
\* ("ok"), answers with errors, or throws; resps[i] records "ok" or "failed"
DeleteListItemSettle(i, resp) ==
    /\ batch.pc = "deleting"
    /\ i \in 1..Len(batch.ids)
    /\ batch.resps[i] = "pending"
    /\ server' = IF resp = "ok" THEN [server EXCEPT ![batch.ids[i]] = NoRecord] ELSE server
    /\ batch' = IF resp = "ok"
                THEN [batch EXCEPT !.resps[i] = "ok", !.success = Append(@, batch.ids[i])]
                ELSE [batch EXCEPT !.resps[i] = "failed", !.failed = Append(@, batch.ids[i])]
    /\ UNCHANGED <<queryCache, op, watch, hist, read, auth, clients>>

AllSettled == \A i \in 1..Len(batch.ids) : batch.resps[i] # "pending"

\* Promise.all has resolved: partial rollback, invalidation, return results
DeleteListFinish ==
    /\ batch.pc = "deleting"
    /\ AllSettled
    /\ queryCache' =
          InvalidateAll(
            DeleteListRestore(queryCache, batch.prevItems, batch.keys, batch.ids, batch.failed),
            batch.keys \cup {itemKey(i) : i \in IdSet(batch.ids)})
    /\ batch' = [batch EXCEPT !.pc = "done", !.ret = "results"]
    /\ UNCHANGED <<server, op, watch, hist, read, auth, clients>>

\* an exception escapes the steps that follow the awaited deletes: full
\* rollback, invalidation of the model, every id reported failed
DeleteListGeneralError ==
    /\ batch.pc = "deleting"
    /\ AllSettled
    /\ queryCache' = InvalidateQueries(rollbackCache(queryCache, batch.snap), <<ModelName>>)
    /\ batch' = [batch EXCEPT !.pc = "done", !.ret = "general",
                              !.success = <<>>, !.failed = batch.ids]
    /\ UNCHANGED <<server, op, watch, hist, read, auth, clients>>

----------------------------------------------------------------------------
(* SpecDeleteList: one caller runs one deleteList.                         *)

NextDeleteList ==
    \/ \E ids \in IdLists : CallDeleteList(ids)
    \/ DeleteListApply
    \/ \E i \in 1..MaxBatch, resp \in {"throw", "errors", "ok"} : DeleteListItemSettle(i, resp)
    \/ DeleteListFinish
    \/ DeleteListGeneralError

\* the backend holds any of the records; the cache holds some of them under
\* their item keys, and the lists of the views that were read
InitDeleteList ==
    /\ server \in InitServers
    /\ queryCache \in {CacheOver(server, itemSt, topSt, [r \in Rels |-> relSt], "none") :
                          itemSt \in {f \in [Ids -> {"none", "item"}] :
                                          \A i \in Ids : f[i] = "item" => server[i] # NoRecord},
                          topSt \in {"undef", "list"},
                          relSt \in {"none", "list"}}
    /\ op = [p \in Procs |-> IdleOp]
    /\ batch = IdleBatch
    /\ watch = IdleWatch
    /\ hist = NoHist
    /\ read = IdleRead
    /\ auth = IdleAuth
    /\ clients = IdleClients

SpecDeleteList == InitDeleteList /\ [][NextDeleteList]_vars

\* the list keys of the model
ListKeys == {k \in Keys : ~isItemKeyForModel(k) /\ k # CurrentIdKey}

\* C5: deleteList partial-failure restore.  After a deleteList in which some
\* transport deletes failed and others succeeded, the item key of every
\* failed id holds its pre-delete value, and every list key that contained
\* the failed record before the call, the top-level list included, contains
\* it again.
C5_PartialFailureRestore ==
    (batch.pc = "done" /\ batch.ret = "results" /\ batch.failed # <<>> /\ batch.success # <<>>)
        => \A f \in IdSet(batch.failed) :
              /\ GetQueryData(queryCache, itemKey(f)) = batch.pre[itemKey(f)]
              /\ \A k \in ListKeys :
                    HasId(batch.pre[k].l, f) => HasId(GetQueryData(queryCache, k).l, f)

\* the ids with a transport delete of outcome in R ("ok", "failed")
IdsAnswered(R) == {batch.ids[i] : i \in {j \in 1..Len(batch.ids) : batch.resps[j] \in R}}

NoRepeats(ids) == \A i \in 1..Len(ids), j \in 1..Len(ids) : ids[i] = ids[j] => i = j

----------------------------------------------------------------------------
(* useHook's collection watch: the observeQuery subscription and its next  *)
(* handler                                                                  *)

\* `${id}::${updatedAt}::${createdAt}::${versionMarker}::${shallowSig}`, as
\* the tuple of its parts; the records carry no createdAt and no version.
\* FieldText is String(v) of a scalar field, "" when the field is absent
signatureForModelItem(item) ==
    LET FieldText(f) == IF FieldOf(item, f) = Missing THEN "" ELSE FieldOf(item, f)
    IN <<FieldText("id"), FieldText("updatedAt"), "", "",
         <<FieldText("dailyId"), FieldText("dailyPlanId"), FieldText("id"),
           FieldText("title"), FieldText("updatedAt")>> >>

\* a variant of the equivalence test that never answers true
areItemArraysEquivalentById_Never(a, b) == FALSE

\* const [id, ts] = sig.split("::"): only id and updatedAt are compared;
\* MapAGet is mapA.get(id) after the loop over a: the ts of the last item of
\* a with this id, "undefined" when there is none
areItemArraysEquivalentById(a, b) ==
    LET MapAGet(id) ==
            LET at == {j \in 1..Len(a) : signatureForModelItem(a[j])[1] = id}
            IN IF at = {} THEN "undefined"
               ELSE signatureForModelItem(a[CHOOSE j \in at : \A m \in at : m <= j])[2]
    IN /\ Len(a) = Len(b)
       /\ \A j \in 1..Len(b) :
             /\ signatureForModelItem(b[j])[1] # ""
             /\ MapAGet(signatureForModelItem(b[j])[1]) = signatureForModelItem(b[j])[2]

\* Array.isArray(nextItems) ? nextItems.filter(Boolean) : []
SafeItems(items) == SelectSeq(items, LAMBDA r : r # NoRecord)

\* queryClient.getQueryData(queryKey) || []
PreviousItems(d) == IF Truthy(d) THEN d.l ELSE <<>>

\* a variant of the guard that discards nothing
EmptyGuard_Never(nextSynced, safeItems, previousItems) == FALSE

\* a variant of the guard that also discards a synced empty emission
EmptyGuard_AlsoSynced(nextSynced, safeItems, previousItems) ==
    Len(safeItems) = 0 /\ Len(previousItems) > 0

\* !nextSynced && safeItems.length === 0 && previousItems.length > 0
EmptyGuard(nextSynced, safeItems, previousItems) ==
    ~nextSynced /\ Len(safeItems) = 0 /\ Len(previousItems) > 0

\* safeItems.forEach: each item with an id is written under its item key
RECURSIVE ObserveWriteItems(_, _)
ObserveWriteItems(c, safeItems) ==
    IF safeItems = <<>> THEN c
    ELSE LET item == Head(safeItems)
         IN ObserveWriteItems(
              IF item.id # Missing THEN SetQueryData(c, itemKey(item.id), Item(item)) ELSE c,
              Tail(safeItems))

ObserveWrite(c, key, safeItems) ==
    ObserveWriteItems(SetQueryData(c, key, List(safeItems)), safeItems)

\* a variant of the handler's branches without the isMounted check
ObserveBranch_Unguarded(mounted, nextSynced, safeItems, previousItems) ==
    IF EmptyGuard(nextSynced, safeItems, previousItems) THEN "discard"
    ELSE IF areItemArraysEquivalentById(previousItems, safeItems) THEN "skip"
    ELSE "write"

\* the branch the handler takes
ObserveBranch(mounted, nextSynced, safeItems, previousItems) ==
    IF ~mounted THEN "ignored"
    ELSE IF EmptyGuard(nextSynced, safeItems, previousItems) THEN "discard"
    ELSE IF areItemArraysEquivalentById(previousItems, safeItems) THEN "skip"
    ELSE "write"

\* the item arrays observeQuery emits: records of different ids, in id order
\* or in reverse id order, and an array with a null entry.  Versions are
\* the versions of a record the feed can emit, InIdOrder(S, v) the records
\* of the ids in S at version v
Emissions ==
    LET Versions == {[updatedAt |-> "t1", title |-> "y"], [updatedAt |-> "t2", title |-> "y"]}
        InIdOrder(S, v) ==
            LET ids == SelectSeq(IdSeq, LAMBDA i : i \in S)
            IN [j \in 1..Len(ids) |-> [id |-> ids[j], dailyId |-> RelOf(ids[j]),
                                        dailyPlanId |-> Missing,
                                        updatedAt |-> v.updatedAt, title |-> v.title]]
        Reverse(s) == [j \in 1..Len(s) |-> s[Len(s) + 1 - j]]
    IN {InIdOrder(S, v) : S \in SUBSET Ids, v \in Versions}
          \cup {Reverse(InIdOrder(Ids, v)) : v \in Versions}
          \cup {<<NoRecord>>}

\* the realtime effect runs: subscribe to observeQuery
Mount(key) ==
    /\ ~watch.mounted
    /\ watch.subscribed => key = watch.key
    /\ watch' = [mounted |-> TRUE, subscribed |-> TRUE, key |-> key, lastSynced |-> "undefined",
                 lastMissingConfirmAt |-> "0"]
    /\ UNCHANGED <<queryCache, server, op, batch, hist, read, auth, clients>>

\* the effect's cleanup
Unmount ==
    /\ watch.mounted
    /\ watch' = [watch EXCEPT !.mounted = FALSE]
    /\ UNCHANGED <<queryCache, server, op, batch, hist, read, auth, clients>>

\* observeQuery delivers ({ items, isSynced }) to the next handler;
\* lastNonEmptyItemsRef, which the handler writes and nothing reads, is left out
Emit(items, synced) ==
    /\ watch.subscribed
    /\ hist.n < MaxEmits
    /\ LET safeItems == SafeItems(items)
           previousItems == PreviousItems(GetQueryData(queryCache, watch.key))
           act == ObserveBranch(watch.mounted, synced, safeItems, previousItems)
       IN /\ queryCache' = IF act = "write"
                           THEN ObserveWrite(queryCache, watch.key, safeItems)
                           ELSE queryCache
          /\ watch' = IF watch.mounted
                      THEN [watch EXCEPT !.lastSynced = IF synced THEN "true" ELSE "false"]
                      ELSE watch
          /\ hist' = IF act = "ignored"
                     THEN [hist EXCEPT !.n = @ + 1]
                     ELSE [n |-> hist.n + 1, handled |-> hist.handled + 1,
                           last |-> items, lastSynced |-> synced,
                           same |-> (hist.handled > 0 /\ items = hist.last
                                        /\ synced = hist.lastSynced),
                           act |-> act,
                           wrote |-> IF act = "write"
                                     THEN {watch.key} \cup
                                          {itemKey(safeItems[j].id) :
                                             j \in {m \in 1..Len(safeItems) :
                                                       safeItems[m].id # Missing}}
                                     ELSE {},
                           discarded |-> (hist.discarded \/ act = "discard")]
    /\ UNCHANGED <<server, op, batch, read, auth, clients>>

----------------------------------------------------------------------------
(* SpecWatch: a list view is mounted and unmounted while its feed emits.   *)

\* the backend holds every record; the cache holds all of them under their
\* item keys or none, the top-level list or a query without data, and the
\* filtered list or nothing
InitWatch ==
    /\ server = [i \in Ids |-> StoredRecord(i)]
    /\ queryCache \in {CacheOver(server, [i \in Ids |-> itemSt], topSt,
                                  [r \in Rels |-> "none"], filtSt) :
                          itemSt \in {"none", "item"}, topSt \in {"undef", "list"},
                          filtSt \in {"none", "list"}}
    /\ op = [p \in Procs |-> IdleOp]
    /\ batch = IdleBatch
    /\ watch = IdleWatch
    /\ hist = NoHist
    /\ read = IdleRead
    /\ auth = IdleAuth
    /\ clients = IdleClients

NextWatch ==
    \/ \E key \in {TopKey, FilterKey} : Mount(key)
    \/ Unmount
    \/ \E items \in Emissions, synced \in BOOLEAN : Emit(items, synced)

SpecWatch == InitWatch /\ [][NextWatch]_vars

\* the step is an emission the mounted handler takes
HandledEmission == hist'.handled = hist.handled + 1

\* C8: no flicker on an unsynced empty emission.  If the list key of the
\* watch holds a non-empty list, an emission (items = [], isSynced = false)
\* writes nothing and leaves the list key and every item key unchanged.
C8_NoFlickerOnUnsyncedEmpty ==
    [][(/\ HandledEmission
        /\ hist'.last = <<>> /\ ~hist'.lastSynced
        /\ GetQueryData(queryCache, watch.key).t = "list"
        /\ Len(GetQueryData(queryCache, watch.key).l) > 0)
          => /\ hist'.wrote = {}
             /\ \A k \in {watch.key} \cup {itemKey(i) : i \in Ids} :
                   queryCache'[k] = queryCache[k]]_vars

\* the handler has taken (items = [], isSynced = false) over a populated list
C8_Witness ==
    /\ hist.handled > 0 /\ hist.last = <<>> /\ ~hist.lastSynced
    /\ hist.act = "discard"
    /\ Len(GetQueryData(queryCache, watch.key).l) > 0

\* C9: a synced empty emission clears the list.  Once an unsynced empty
\* emission has been discarded over a populated list, an emission
\* (items = [], isSynced = true) the handler takes leaves the empty list
\* under the list key.
C9_SyncedEmptyClears ==
    (hist.handled > 0 /\ hist.last = <<>> /\ hist.lastSynced /\ hist.discarded)
        => GetQueryData(queryCache, watch.key) = List(<<>>)

\* a discarded unsynced empty emission was followed by (items = [],
\* isSynced = true), which wrote the list key
C9_Witness ==
    /\ hist.handled > 1 /\ hist.last = <<>> /\ hist.lastSynced /\ hist.discarded
    /\ hist.wrote = {watch.key}

C15_NoWriteAfterTeardown ==
    [][(watch.subscribed /\ ~watch.mounted /\ hist'.n = hist.n + 1)
          => queryCache' = queryCache]_vars

\* an emission arrived after the cleanup, with a list under the watched key
C15_Witness ==
    /\ watch.subscribed /\ ~watch.mounted
    /\ hist.n > hist.handled
    /\ GetQueryData(queryCache, watch.key).t = "list"

\* C25: the collection watch detects real changes.  An emission the handler
\* takes in which some item's signature (id, change marker, shallow field
\* fingerprint) differs from that of the cached item with the same id
\* overwrites the list key and the item keys of its items, also when only a
\* scalar field changed and updatedAt stayed the same.
C25_DetectsRealChanges ==
    [][LET safeItems == SafeItems(hist'.last)
           previousItems == PreviousItems(GetQueryData(queryCache, watch.key))
       IN (/\ HandledEmission
           /\ \E j \in 1..Len(safeItems), m \in 1..Len(previousItems) :
                 /\ previousItems[m].id = safeItems[j].id
                 /\ signatureForModelItem(previousItems[m])
                        # signatureForModelItem(safeItems[j]))
          => /\ GetQueryData(queryCache', watch.key) = List(safeItems)
             /\ \A j \in 1..Len(safeItems) :
                   GetQueryData(queryCache', itemKey(safeItems[j].id))
                       = Item(safeItems[j])]_vars

----------------------------------------------------------------------------
(* useItemHook's single-item watch: the observeQuery subscription of one   *)
(* record, its next handler and the confirmation get of a missing record.  *)
(* The watch is mounted on the record's item key; the confirmation get in  *)
(* flight is the call op[Caller].                                          *)

\* the handler's writes: nextItem under the item key and, in every related
\* list, in place of the entry with its id, or appended to the top-level list
ItemWatchWrite(c, id, nextItem) ==
    LET c1 == SetQueryData(c, itemKey(id), Item(nextItem))
        updated(k, oldItems) ==
            IF HasId(oldItems, id) THEN ReplaceById(oldItems, id, nextItem)
            ELSE IF Len(k) = 1 THEN Append(oldItems, nextItem)
            ELSE oldItems
    IN [k \in Keys |->
          IF k \in findRelatedQueryKeys(c)
          THEN SetQueryData(c1, k, List(updated(k, OldItems(GetQueryData(c1, k)))))[k]
          ELSE c1[k]]

\* observeQuery delivers ({ items, isSynced }) to the next handler of the
\* item watch; throttled says whether the last confirmation began less than
\* 2000 ms ago, which no confirmation did while lastMissingConfirmAt is 0.  The branch taken is recorded in hist.act: "ignored" (not
\* mounted), "wait" (missing, not synced), "throttled", "confirm" (the
\* confirmation get is issued; op[Caller].branch keeps isSynced of the
\* emission that issued it), "skip" (same signature) or "write".
ItemEmit(items, synced, throttled) ==
    /\ watch.subscribed
    /\ hist.n < MaxEmits
    /\ LET id == watch.key[3]
           safeItems == SafeItems(items)
           found == SelectSeq(safeItems, LAMBDA r : r.id = id)
           prev == GetQueryData(queryCache, watch.key)
           prevItem == IF prev.t = "item" THEN prev.l[1] ELSE NoRecord
           act == IF ~watch.mounted THEN "ignored"
                  ELSE IF found = <<>>
                  THEN IF ~synced THEN "wait"
                       ELSE IF throttled THEN "throttled" ELSE "confirm"
                  ELSE IF signatureForModelItem(prevItem) = signatureForModelItem(found[1])
                  THEN "skip"
                  ELSE "write"
       IN /\ throttled => watch.lastMissingConfirmAt # "0"
          /\ act = "confirm" => op[Caller].pc = "idle"
          /\ queryCache' = IF act = "write" THEN ItemWatchWrite(queryCache, id, found[1])
                           ELSE queryCache
          /\ op' = IF act = "confirm"
                   THEN [op EXCEPT ![Caller] =
                           [@ EXCEPT !.kind = "confirm", !.pc = "get_wait", !.id = id,
                                     !.branch = IF synced THEN "synced" ELSE "unsynced",
                                     !.pre = DataOf(queryCache)]]
                   ELSE op
          /\ watch' = IF watch.mounted
                      THEN [watch EXCEPT !.lastSynced = IF synced THEN "true" ELSE "false",
                                         !.lastMissingConfirmAt =
                                             IF act = "confirm" THEN "set" ELSE @]
                      ELSE watch
          /\ hist' = [hist EXCEPT !.n = @ + 1, !.act = act,
                                  !.handled = IF act = "ignored" THEN @ ELSE @ + 1]
    /\ UNCHANGED <<server, batch, read, auth, clients>>

\* the confirmation get settles: service.get(id, { forceRefresh: true })
\* populates the cache from the answer and returns the record, or null after
\* an error; the continuation then writes the record or null under the item
\* key when the watch is still mounted
ItemConfirmSettle(resp, item) ==
    /\ op[Caller].pc = "get_wait" /\ op[Caller].kind = "confirm"
    /\ IF resp = "data" THEN item \in GetAnswers(server, op[Caller].id) ELSE item = NoRecord
    /\ LET id == op[Caller].id
           c1 == GetPopulate(queryCache, id, item)
       IN /\ queryCache' = IF watch.mounted
                           THEN SetQueryData(c1, itemKey(id),
                                             IF item = NoRecord THEN Null ELSE Item(item))
                           ELSE c1
          /\ op' = [op EXCEPT ![Caller] =
                      Returned([@ EXCEPT !.resp = resp],
                               IF item = NoRecord THEN "null" ELSE "item", item)]
    /\ UNCHANGED <<server, batch, watch, hist, read, auth, clients>>

\* the backend holds any of the records; the cache holds the stored records
\* under their item keys or none, and the top-level list or nothing
InitItemWatch ==
    /\ server \in InitServers
    /\ queryCache \in {CacheOver(server,
                                  [i \in Ids |-> IF server[i] # NoRecord THEN itemSt ELSE "none"],
                                  topSt, [r \in Rels |-> topSt], "none") :
                          itemSt \in {"none", "item"}, topSt \in {"none", "list"}}
    /\ op = [p \in Procs |-> IdleOp]
    /\ batch = IdleBatch
    /\ watch = IdleWatch
    /\ hist = NoHist
    /\ read = IdleRead
    /\ auth = IdleAuth
    /\ clients = IdleClients

NextItemWatch ==
    \/ \E id \in Ids : Mount(itemKey(id))
    \/ Unmount
    \/ \E items \in Emissions, synced \in BOOLEAN, throttled \in BOOLEAN :
          ItemEmit(items, synced, throttled)
    \/ \E resp \in {"throw", "data"}, item \in {NoRecord} \cup {server[i] : i \in Ids} :
          ItemConfirmSettle(resp, item)

SpecItemWatch == InitItemWatch /\ [][NextItemWatch]_vars

\* C14: no orphaned write after single-item-watch teardown.  Once the
\* cleanup of the item watch has run, nothing that follows from its
\* subscription, a confirmation get that was in flight included, changes the
\* value of an item key or of a list key.
C14_NoWriteAfterItemTeardown ==
    [][(watch.subscribed /\ ~watch.mounted) => DataOf(queryCache') = DataOf(queryCache)]_vars

\* C24: the single-item watch clears only on confirmed absence.  The item
\* key of the watched record becomes null only when the emission that
\* reported it missing was synced and the forced get answered that the
\* backend holds no such record; after an unsynced emission, and when the
\* confirmation get fails, the item key keeps its value.
C24_ClearOnlyOnConfirmedAbsence ==
    [][\A i \in Ids :
          (queryCache'[itemKey(i)].t = "null" /\ queryCache[itemKey(i)].t # "null")
          => /\ op[Caller].kind = "confirm" /\ op[Caller].pc = "get_wait"
             /\ op[Caller].id = i /\ op[Caller].branch = "synced"
             /\ op'[Caller].resp = "data"
             /\ server[i] = NoRecord]_vars

----------------------------------------------------------------------------
(* JavaScript values and operators the client-side filter of list uses.   *)
(* A value is a record [k, n, s]: k is "undefined", "null", "number" (n    *)
(* its value) or "string" (s the sequence of its characters).              *)

\* the characters of the model's strings, in code-unit order
Alphabet == <<"0", "1", "2", "3", "4", "5", "6", "7", "8", "9",
              "d", "e", "f", "i", "l", "n", "o", "p", "u">>

\* a < b, or a <= b with orEqual: two strings compare by code units,
\* anything else as numbers (ToNumber: null is 0, undefined is NaN, "" is 0,
\* a string of digits is its value, any other string of the model is NaN)
JsLess(a, b, orEqual) ==
    LET CharCode(c) == CHOOSE i \in 1..Len(Alphabet) : Alphabet[i] = c
        RECURSIVE DigitsValue(_)
        DigitsValue(s) ==
            IF s = <<>> THEN 0
            ELSE 10 * DigitsValue(SubSeq(s, 1, Len(s) - 1)) + (CharCode(s[Len(s)]) - 1)
        AllDigits(s) == \A i \in 1..Len(s) : CharCode(s[i]) <= 10
        ToNumber(v) ==
            IF v.k = "number" THEN [nan |-> FALSE, n |-> v.n]
            ELSE IF v.k = "null" THEN [nan |-> FALSE, n |-> 0]
            ELSE IF v.k = "string" /\ AllDigits(v.s)
            THEN [nan |-> FALSE, n |-> DigitsValue(v.s)]
            ELSE [nan |-> TRUE, n |-> 0]
        RECURSIVE StrLess(_, _)
        StrLess(s, t) ==
            IF t = <<>> THEN FALSE
            ELSE IF s = <<>> THEN TRUE
            ELSE IF CharCode(Head(s)) # CharCode(Head(t))
            THEN CharCode(Head(s)) < CharCode(Head(t))
            ELSE StrLess(Tail(s), Tail(t))
    IN IF a.k = "string" /\ b.k = "string"
       THEN IF orEqual THEN ~StrLess(b.s, a.s) ELSE StrLess(a.s, b.s)
       ELSE /\ ~ToNumber(a).nan /\ ~ToNumber(b).nan
            /\ IF orEqual THEN ToNumber(a).n <= ToNumber(b).n
               ELSE ToNumber(a).n < ToNumber(b).n

\* String(v)
JsString(v) ==
    LET RECURSIVE NatDigits(_)
        NatDigits(n) ==
            IF n < 10 THEN <<Alphabet[n + 1]>>
            ELSE Append(NatDigits(n \div 10), Alphabet[(n % 10) + 1])
    IN IF v.k = "undefined" THEN <<"u", "n", "d", "e", "f", "i", "n", "e", "d">>
       ELSE IF v.k = "null" THEN <<"n", "u", "l", "l">>
       ELSE IF v.k = "number" THEN NatDigits(v.n)
       ELSE v.s

----------------------------------------------------------------------------
(* list: the client-side filter                                            *)

\* (result?.items || ...).filter(item => item !== null)
NonNull(items) == SelectSeq(items, LAMBDA r : r # NoRecord)

\* filteredItems: the non-null items every entry of the filter matches
FilteredItems(items, filter) ==
    LET \* one entry of Object.entries(options.filter): [key, value], the value an
        \* object with one operator (op, arg, arg2 for between's upper bound) or a
        \* bare value (op = "bare")
        ClauseMatches(item, c) ==
            LET itemValue == IF c.key \in DOMAIN item THEN item[c.key]
                             ELSE [k |-> "undefined", n |-> 0, s |-> <<>>]
                includes(s, t) == \E i \in 0..(Len(s) - Len(t)) : SubSeq(s, i + 1, i + Len(t)) = t
            IN IF c.op = "eq" THEN itemValue = c.arg
               ELSE IF c.op = "ne" THEN itemValue # c.arg
               ELSE IF c.op = "gt" THEN JsLess(c.arg, itemValue, FALSE)
               ELSE IF c.op = "lt" THEN JsLess(itemValue, c.arg, FALSE)
               ELSE IF c.op = "contains" THEN includes(JsString(itemValue), JsString(c.arg))
               ELSE IF c.op = "between"
               THEN JsLess(c.arg, itemValue, TRUE) /\ JsLess(itemValue, c.arg2, TRUE)
               ELSE itemValue = c.arg
    IN
    IF filter.has
    THEN SelectSeq(NonNull(items),
                   LAMBDA r : \A i \in 1..Len(filter.clauses) :
                                  ClauseMatches(r, filter.clauses[i]))
    ELSE NonNull(items)

----------------------------------------------------------------------------
(* list and customList: cache check, transport call, cache population,     *)
(* failure handling.  A call that ends has pc "done" and out "cache" (the  *)
(* cached list), "items" (the fetched items), "empty" ([] after a failure) *)
(* or "thrown" (the error, with throwOnError).                             *)

\* cachedItems && cachedItems.length > 0 && !queryState?.isInvalidated
ReadCacheHit(c, key, forceRefresh) ==
    /\ ~forceRefresh
    /\ c[key].t = "list"
    /\ Len(c[key].l) > 0
    /\ ~c[key].inv

\* setQueryData(queryKey, filteredItems), then every item with a string id
\* under its item key
ReadStore(c, key, filteredItems) ==
    ObserveWriteItems(SetQueryData(c, key, List(filteredItems)), filteredItems)

\* list(options): the query key and the cache check
CallList(filter, forceRefresh, throwOnError) ==
    /\ read.pc = "idle"
    /\ LET queryKey == IF filter.has THEN FilterKey ELSE TopKey
           r == [read EXCEPT !.kind = "list", !.filter = filter, !.key = queryKey,
                             !.forceRefresh = forceRefresh, !.throwOnError = throwOnError,
                             !.pre = DataOf(queryCache)]
       IN read' = IF ReadCacheHit(queryCache, queryKey, forceRefresh)
                  THEN [r EXCEPT !.pc = "done", !.out = "cache",
                                 !.items = NonNull(queryCache[queryKey].l)]
                  ELSE [r EXCEPT !.pc = "list_wait", !.calls = 1]
    /\ UNCHANGED <<queryCache, server, op, batch, watch, hist, auth, clients>>

\* a variant of the list catch that also empties the call's list key
ListAnswered_ClearsOnFailure(c, r, resp, items) ==
    IF resp = "data"
    THEN [c |-> ReadStore(c, r.key, FilteredItems(items, r.filter)),
          r |-> [r EXCEPT !.pc = "done", !.out = "items", !.resp = resp, !.fetched = items,
                          !.items = FilteredItems(items, r.filter)]]
    ELSE [c |-> SetQueryData(c, r.key, List(<<>>)),
          r |-> [r EXCEPT !.pc = "done", !.items = <<>>, !.resp = resp,
                          !.out = IF r.throwOnError THEN "thrown" ELSE "empty"]]

\* what a settled list transport call leaves, the cache (c) and the call (r):
\* data is filtered, stored and returned; a failure reaches the outer catch,
\* which invalidates [modelName, "filter", JSON.stringify(options.filter)],
\* a key no query has when the filter is absent, and returns [] or throws
ListAnswered(c, r, resp, items) ==
    IF resp = "data"
    THEN [c |-> ReadStore(c, r.key, FilteredItems(items, r.filter)),
          r |-> [r EXCEPT !.pc = "done", !.out = "items", !.resp = resp, !.fetched = items,
                          !.items = FilteredItems(items, r.filter)]]
    ELSE [c |-> IF r.filter.has THEN InvalidateQueries(c, FilterKey) ELSE c,
          r |-> [r EXCEPT !.pc = "done", !.items = <<>>, !.resp = resp,
                          !.out = IF r.throwOnError THEN "thrown" ELSE "empty"]]

\* the owner query settles: data, no data with errors, a thrown error, or
\* the error of a query that does not exist ("notfound")
ListSettle(resp, items) ==
    /\ read.pc = "list_wait"
    /\ resp # "data" => items = <<>>
    /\ IF resp = "notfound"
       THEN /\ read' = [read EXCEPT !.pc = "fallback_wait", !.calls = @ + 1, !.resp = resp]
            /\ UNCHANGED queryCache
       ELSE /\ queryCache' = ListAnswered(queryCache, read, resp, items).c
            /\ read' = ListAnswered(queryCache, read, resp, items).r
    /\ UNCHANGED <<server, op, batch, watch, hist, auth, clients>>

\* the default list query of the fallback settles
ListFallbackSettle(resp, items) ==
    /\ read.pc = "fallback_wait"
    /\ resp # "data" => items = <<>>
    /\ queryCache' = ListAnswered(queryCache, read, resp, items).c
    /\ read' = ListAnswered(queryCache, read, resp, items).r
    /\ UNCHANGED <<server, op, batch, watch, hist, auth, clients>>

\* customList(queryName, { dailyId: rel }, options): the query key and the
\* cache check
CallCustomList(rel, forceRefresh, throwOnError) ==
    /\ read.pc = "idle"
    /\ LET r == [read EXCEPT !.kind = "customList", !.key = RelKey(rel),
                             !.forceRefresh = forceRefresh, !.throwOnError = throwOnError,
                             !.pre = DataOf(queryCache)]
       IN read' = IF ReadCacheHit(queryCache, r.key, forceRefresh)
                  THEN [r EXCEPT !.pc = "done", !.out = "cache",
                                 !.items = NonNull(queryCache[r.key].l)]
                  ELSE [r EXCEPT !.pc = "custom_wait", !.calls = 1]
    /\ UNCHANGED <<queryCache, server, op, batch, watch, hist, auth, clients>>

\* the index query settles: the non-null items are stored and returned; the
\* catch invalidates the call's query key and returns [] or throws
CustomListSettle(resp, items) ==
    /\ read.pc = "custom_wait"
    /\ resp # "data" => items = <<>>
    /\ IF resp = "data"
       THEN /\ queryCache' = ReadStore(queryCache, read.key, NonNull(items))
            /\ read' = [read EXCEPT !.pc = "done", !.out = "items", !.resp = resp,
                                    !.fetched = items, !.items = NonNull(items)]
       ELSE /\ queryCache' = InvalidateQueries(queryCache, read.key)
            /\ read' = [read EXCEPT !.pc = "done", !.items = <<>>, !.resp = resp,
                                    !.out = IF read.throwOnError THEN "thrown" ELSE "empty"]
    /\ UNCHANGED <<server, op, batch, watch, hist, auth, clients>>

----------------------------------------------------------------------------
(* SpecRead: one caller runs one list or customList.                       *)

\* the item arrays a list query answers: records of different ids in id
\* order, each with a score (1, 3 or null) and a status ("open", "done" or
\* null), and an array with a null entry
ListAnswers ==
    LET Num(n) == [k |-> "number", n |-> n, s |-> <<>>]
        Str(s) == [k |-> "string", n |-> 0, s |-> s]
        JsNull == [k |-> "null", n |-> 0, s |-> <<>>]
        Open == Str(<<"o", "p", "e", "n">>)
        Done == Str(<<"d", "o", "n", "e">>)
        RowKinds == {<<Num(1), Open>>, <<Num(3), Done>>, <<JsNull, Open>>, <<Num(3), JsNull>>}
        Row(id, kind) == [id |-> id, score |-> kind[1], status |-> kind[2]]
        IdsIn(S) == SelectSeq(IdSeq, LAMBDA i : i \in S)
    IN UNION {{[j \in 1..Len(IdsIn(S)) |-> Row(IdsIn(S)[j], kinds[IdsIn(S)[j]])] :
                 kinds \in [S -> RowKinds]} : S \in SUBSET Ids}
           \cup {<<NoRecord, Row(IdPool[1], <<Num(1), Open>>)>>}

\* the filters a caller passes: none, the empty object, one clause, or a
\* score clause and a status clause in either insertion order
ListFilters ==
    LET Num(n) == [k |-> "number", n |-> n, s |-> <<>>]
        Str(s) == [k |-> "string", n |-> 0, s |-> s]
        JsUndef == [k |-> "undefined", n |-> 0, s |-> <<>>]
        Open == Str(<<"o", "p", "e", "n">>)
        Done == Str(<<"d", "o", "n", "e">>)
        Clause(key, o, arg, arg2) == [key |-> key, op |-> o, arg |-> arg, arg2 |-> arg2]
        ScoreClauses ==
            {Clause("score", "eq", Num(1), JsUndef), Clause("score", "ne", Num(1), JsUndef),
             Clause("score", "gt", Num(1), JsUndef), Clause("score", "lt", Num(3), JsUndef),
             Clause("score", "between", Num(0), Num(3)),
             Clause("score", "between", Num(1), Num(3)),
             Clause("score", "bare", Num(3), JsUndef)}
        StatusClauses ==
            {Clause("status", "eq", Open, JsUndef), Clause("status", "ne", Open, JsUndef),
             Clause("status", "contains", Str(<<"n">>), JsUndef),
             Clause("status", "contains", Str(<<"p", "e">>), JsUndef),
             Clause("status", "bare", Done, JsUndef)}
    IN {[has |-> FALSE, clauses |-> <<>>], [has |-> TRUE, clauses |-> <<>>]}
           \cup {[has |-> TRUE, clauses |-> <<c>>] : c \in ScoreClauses \cup StatusClauses}
           \cup {[has |-> TRUE,
                  clauses |-> <<Clause("score", "between", Num(1), Num(3)),
                                Clause("status", "eq", Open, JsUndef)>>],
                 [has |-> TRUE,
                  clauses |-> <<Clause("status", "contains", Str(<<"n">>), JsUndef),
                                Clause("score", "gt", Num(1), JsUndef)>>]}

\* the backend holds every record; the cache holds what earlier reads left,
\* fresh or marked invalidated
InitRead ==
    /\ server = [i \in Ids |-> StoredRecord(i)]
    /\ queryCache \in
          {IF stale THEN InvalidateQueries(c, <<ModelName>>) ELSE c :
              stale \in BOOLEAN,
              c \in {CacheOver(server, [i \in Ids |-> "item"], listSt,
                               [r \in Rels |-> listSt], listSt) :
                        listSt \in {"none", "list"}}}
    /\ op = [p \in Procs |-> IdleOp]
    /\ batch = IdleBatch
    /\ watch = IdleWatch
    /\ hist = NoHist
    /\ read = IdleRead
    /\ auth = IdleAuth
    /\ clients = IdleClients

NextRead ==
    \/ \E filter \in ListFilters, forceRefresh \in BOOLEAN, throwOnError \in BOOLEAN :
          CallList(filter, forceRefresh, throwOnError)
    \/ \E resp \in {"data", "errors", "throw", "notfound"}, items \in ListAnswers :
          ListSettle(resp, items)
    \/ \E resp \in {"data", "errors", "throw"}, items \in ListAnswers :
          ListFallbackSettle(resp, items)
    \/ \E rel \in Rels, forceRefresh \in BOOLEAN, throwOnError \in BOOLEAN :
          CallCustomList(rel, forceRefresh, throwOnError)
    \/ \E resp \in {"data", "errors", "throw"}, items \in ListAnswers :
          CustomListSettle(resp, items)

SpecRead == InitRead /\ [][NextRead]_vars

\* what it is for a record to satisfy a clause: eq and a bare value are
\* equality, ne is inequality; gt, lt and between compare a number with
\* numbers or a string with strings, between inclusive at both bounds;
\* contains holds of a string field that has the substring
Satisfies(item, c) ==
    LET v == IF c.key \in DOMAIN item THEN item[c.key]
             ELSE [k |-> "undefined", n |-> 0, s |-> <<>>]
        comparable(x) == v.k = x.k /\ v.k \in {"number", "string"}
        includes(s, t) == \E i \in 0..(Len(s) - Len(t)) : SubSeq(s, i + 1, i + Len(t)) = t
    IN IF c.op \in {"eq", "bare"} THEN v = c.arg
       ELSE IF c.op = "ne" THEN v # c.arg
       ELSE IF c.op = "gt" THEN comparable(c.arg) /\ JsLess(c.arg, v, FALSE)
       ELSE IF c.op = "lt" THEN comparable(c.arg) /\ JsLess(v, c.arg, FALSE)
       ELSE IF c.op = "between"
       THEN /\ comparable(c.arg) /\ comparable(c.arg2)
            /\ JsLess(c.arg, v, TRUE) /\ JsLess(v, c.arg2, TRUE)
       ELSE v.k = "string" /\ c.arg.k = "string" /\ includes(v.s, c.arg.s)

SatisfiesAll(item, filter) ==
    \A i \in 1..Len(filter.clauses) : Satisfies(item, filter.clauses[i])

\* C11: filter predicate semantics.  A list({filter}) that fetched returns,
\* and stores under the filtered list key, exactly the fetched non-null
\* records that satisfy every clause of the filter.
C11_FilterSemantics ==
    (read.kind = "list" /\ read.filter.has /\ read.out = "items")
        => /\ read.items = SelectSeq(NonNull(read.fetched),
                                     LAMBDA r : SatisfiesAll(r, read.filter))
           /\ GetQueryData(queryCache, read.key) = List(read.items)

\* C18: read failure handling.  When the transport call of a list or
\* customList fails, the call returns [] or, with throwOnError, throws; no
\* list key and no item key changes its value, only invalidation flags may
\* change.
C18_ReadFailure ==
    [][(read.pc # "done" /\ read'.pc = "done" /\ read'.resp \in {"errors", "throw"})
          => /\ read'.out = (IF read'.throwOnError THEN "thrown" ELSE "empty")
             /\ read'.items = <<>>
             /\ DataOf(queryCache') = DataOf(queryCache)]_vars

\* a forced list with a filter failed and threw; the filtered list it left
\* alone is now marked invalidated
C18_Witness ==
    /\ read.pc = "done" /\ read.kind = "list" /\ read.filter.has
    /\ read.resp = "throw" /\ read.out = "thrown"
    /\ queryCache[FilterKey].t = "list" /\ Len(queryCache[FilterKey].l) > 0
    /\ queryCache[FilterKey].inv

----------------------------------------------------------------------------
(* Further claims checked under Spec *)

\* C12: empty success is failure.  When the transport call of a create,
\* update, delete or upsert settles with no data and no thrown error, the
\* call rolls its optimistic write back and does not report success.
C12_EmptySuccessIsFailure ==
    [][\A p \in Procs :
          (op[p].pc # "done" /\ op'[p].pc = "done"
              /\ op'[p].kind \in Mutations /\ op'[p].resp = "empty")
          => /\ op'[p].ret \notin {"item", "true"}
             /\ queryCache' = rollbackCache(queryCache, op[p].snap)]_vars

\* C13: invalidation backstop.  After a successful create, update, delete or
\* upsert has returned, every list key of the type that holds a list is
\* marked invalidated.
C13_InvalidationBackstop ==
    \A p \in Procs :
        (op[p].pc = "done" /\ op[p].kind \in Mutations /\ op[p].resp \in {"data", "ok"})
            => \A k \in ListKeys : queryCache[k].t = "list" => queryCache[k].inv

----------------------------------------------------------------------------
(* SpecValidate: the entry of each mutation, the validation of its input   *)
(* and, for a valid input, the hand-over to its first await.               *)

NextValidate ==
    \/ \E data \in Payloads, isNull \in BOOLEAN : CallCreate(Caller, data, isNull)
    \/ \E data \in Payloads : CallUpdate(Caller, data)
    \/ \E data \in Payloads : CallUpsert(Caller, data)
    \/ \E id \in Ids \cup {Missing} : CallDelete(Caller, id)
    \/ \E ids \in IdLists : CallDeleteList(ids)

SpecValidate == InitDeleteList /\ [][NextValidate]_vars

\* p has just been called with a null payload (create) or without an id
\* (update, upsert, delete)
InvalidCall(p) ==
    /\ op[p].pc = "idle" /\ op'[p].pc # "idle"
    /\ \/ op'[p].kind = "create" /\ op'[p].data = NoRecord
       \/ op'[p].kind \in {"update", "upsert", "delete"} /\ op'[p].id = Missing

\* C17: validation errors are local.  A create with a null payload, an
\* update or upsert without an id, and a delete with an empty id return null
\* or false, and a deleteList with an empty id list returns the empty
\* result, without a transport call and without changing any cache entry.
C17_ValidationLocal ==
    [][/\ \A p \in Procs :
             InvalidCall(p)
                => /\ op'[p].pc = "done" /\ op'[p].resp = "none"
                   /\ op'[p].ret = (IF op'[p].kind = "delete" THEN "false" ELSE "null")
                   /\ queryCache' = queryCache /\ server' = server
       /\ (batch.pc = "idle" /\ batch'.pc # "idle" /\ batch'.ids = <<>>)
             => /\ batch'.pc = "done" /\ batch'.ret = "results"
                /\ batch'.success = <<>> /\ batch'.failed = <<>> /\ batch'.resps = <<>>
                /\ queryCache' = queryCache /\ server' = server]_vars

\* an upsert without an id and a deleteList of no ids have returned, with
\* records in the cache
C17_Witness ==
    /\ op[Caller].pc = "done" /\ op[Caller].kind = "upsert" /\ op[Caller].id = Missing
    /\ batch.pc = "done" /\ batch.ids = <<>>
    /\ \E i \in Ids : queryCache[itemKey(i)].t = "item"

----------------------------------------------------------------------------
(* The query keys list and customList build from their filter and args     *)
(* objects.  An object is the sequence of its entries in insertion order,  *)
(* each [key, op, arg, arg2] as in the filter of list (op = "bare": the    *)
(* value is arg itself).                                                   *)

\* JSON.stringify(object): the entries in insertion order
JSONStringify(entries) ==
    LET Quoted(s) == "\"" \o s \o "\""
        Text(v) == IF v.k = "number" THEN ToString(v.n)
                   ELSE IF v.k = "string" THEN Quoted(Concat(v.s))
                   ELSE "null"
        Value(e) == IF e.op = "bare" THEN Text(e.arg)
                    ELSE IF e.op = "between"
                    THEN "{" \o Quoted(e.op) \o ":[" \o Text(e.arg) \o "," \o Text(e.arg2) \o "]}"
                    ELSE "{" \o Quoted(e.op) \o ":" \o Text(e.arg) \o "}"
        Member(j) == (IF j > 1 THEN "," ELSE "") \o Quoted(entries[j].key) \o ":"
                         \o Value(entries[j])
    IN "{" \o Concat([j \in 1..Len(entries) |-> Member(j)]) \o "}"

\* the query key of list(options)
listQueryKey(filter) ==
    IF filter.has THEN <<ModelName, "filter", JSONStringify(filter.clauses)>>
    ELSE <<ModelName>>

\* the query key of customList(queryName, args): relational when an args
\* key ends in "Id"; relationField is the first such key, relationName the
\* field without its trailing "Id", its first character in upper case
customListQueryKey(queryName, args) ==
    LET toUpperCase(s) ==
            [j \in 1..Len(s) |->
                CASE s[j] = "a" -> "A" [] s[j] = "c" -> "C" [] s[j] = "d" -> "D" [] s[j] = "e" -> "E"
                  [] s[j] = "i" -> "I" [] s[j] = "l" -> "L" [] s[j] = "n" -> "N" [] s[j] = "o" -> "O"
                  [] s[j] = "q" -> "Q" [] s[j] = "r" -> "R" [] s[j] = "s" -> "S" [] s[j] = "t" -> "T"
                  [] s[j] = "u" -> "U" [] s[j] = "y" -> "Y" [] OTHER -> s[j]]
        endsWithId(key) ==
            Len(Spell[key]) >= 2 /\ SubSeq(Spell[key], Len(Spell[key]) - 1, Len(Spell[key])) = <<"I", "d">>
        relationFields == SelectSeq(args, LAMBDA e : endsWithId(e.key))
        relationField == Spell[relationFields[1].key]
        stripped == SubSeq(relationField, 1, Len(relationField) - 2)
        relationName == IF stripped = <<>> THEN ""
                        ELSE Concat(toUpperCase(<<Head(stripped)>>) \o Tail(stripped))
        relationId == IF relationFields[1].arg.k = "string"
                      THEN Concat(relationFields[1].arg.s) ELSE relationFields[1].arg
    IN IF relationFields # <<>>
       THEN <<ModelName, relationName, relationId, "query", queryName, JSONStringify(args)>>
       ELSE <<ModelName, "query", queryName, JSONStringify(args)>>

\* caller p runs list({filter: object}) or customList("listByDaily", object)
\* up to the query key it addresses
BuildKey(p, kind, object) ==
    /\ op[p].pc = "idle"
    /\ op' = [op EXCEPT ![p] =
                [@ EXCEPT !.kind = kind, !.pc = "done", !.data = object,
                          !.keys = {IF kind = "list"
                                    THEN listQueryKey([has |-> TRUE, clauses |-> object])
                                    ELSE customListQueryKey("listByDaily", object)}]]
    /\ UNCHANGED <<queryCache, server, batch, watch, hist, read, auth, clients>>

\* the objects the callers pass: one entry, or two entries of different
\* keys in either insertion order
KeyObjects ==
    LET Num(n) == [k |-> "number", n |-> n, s |-> <<>>]
        Str(s) == [k |-> "string", n |-> 0, s |-> s]
        Entries == {[key |-> "score", op |-> "between", arg |-> Num(1), arg2 |-> Num(3)],
                    [key |-> "score", op |-> "bare", arg |-> Num(3), arg2 |-> Num(0)],
                    [key |-> "status", op |-> "eq", arg |-> Str(<<"o", "p", "e", "n">>),
                     arg2 |-> Num(0)],
                    [key |-> "dailyId", op |-> "bare", arg |-> Str(<<"A">>), arg2 |-> Num(0)],
                    [key |-> "dailyPlanId", op |-> "bare", arg |-> Str(<<"A">>),
                     arg2 |-> Num(0)]}
    IN {<<e>> : e \in Entries} \cup {o \in Entries \X Entries : o[1].key # o[2].key}

NextKey ==
    \E p \in Procs, kind \in {"list", "customList"}, object \in KeyObjects :
        BuildKey(p, kind, object)

SpecKey == InitRead /\ [][NextKey]_vars

\* two objects with the same fields and the same values
SameFields(a, b) == {a[j] : j \in 1..Len(a)} = {b[j] : j \in 1..Len(b)}

\* C16: stable key encoding.  Two list calls whose filter objects, or two
\* customList calls whose args objects, have the same fields with the same
\* values build the same query key, whatever the insertion order.
C16_StableKeyEncoding ==
    \A p, q \in Procs :
        (op[p].pc = "done" /\ op[q].pc = "done" /\ op[p].kind = op[q].kind
            /\ SameFields(op[p].data, op[q].data))
        => op[p].keys = op[q].keys

\* the args keys that end in "Id"
IdKeys == {"dailyId", "dailyPlanId"}

\* C32: relation name round trip.  The key customList builds from args
\* {f: v}, f a field name ending in "Id", is taken by the fan-out of create
\* and update for the list of exactly the records whose field f equals v.
C32_RelationNameRoundTrip ==
    \A p \in Procs :
        (/\ op[p].kind = "customList" /\ op[p].pc = "done"
         /\ Len(op[p].data) = 1 /\ op[p].data[1].key \in IdKeys)
        => \A k \in op[p].keys, rec \in PlanPayloads :
              /\ IsRelationalQuery(k)
              /\ BelongsToRelation(rec, k)
                    <=> FieldOf(rec, op[p].data[1].key) = Concat(op[p].data[1].arg.s)

\* C33: customList's key shape.  The key has the relation-scoped shape
\* [T, RelationName, relationId, "query", queryName, argsJSON] exactly when
\* the args hold exactly one key ending in "Id", and the plain shape
\* [T, "query", queryName, argsJSON] in every other case.
C33_CustomListKeyShape ==
    \A p \in Procs :
        (op[p].kind = "customList" /\ op[p].pc = "done")
        => \A k \in op[p].keys :
              LET args == op[p].data
                  idEntries == {j \in 1..Len(args) : args[j].key \in IdKeys}
              IN IF Cardinality(idEntries) = 1
                 THEN Len(k) = 6 /\ k[4] = "query" /\ k[2] # "query"
                 ELSE Len(k) = 4 /\ k[2] = "query"

----------------------------------------------------------------------------
(* ensureMutationsFlushed and the MutationCache.  A call that runs as the  *)
(* mutationFn of a useMutation (op[p].mutation) is a mutation of the       *)
(* MutationCache, pending until the call returns; a call made on the       *)
(* service directly is not in the MutationCache.                           *)

\* queryClient.isMutating(): a mutation of the MutationCache is pending
isMutating == \E p \in Procs : op[p].mutation /\ op[p].pc # "done"

\* updateMutation.mutateAsync / deleteMutation.mutateAsync: the mutation
\* enters the MutationCache; its mutationFn, the service call, runs next
MutateAsync(p) ==
    /\ op[p].pc = "idle" /\ ~op[p].mutation
    /\ op' = [op EXCEPT ![p] = [@ EXCEPT !.mutation = TRUE]]
    /\ UNCHANGED <<queryCache, server, batch, watch, hist, read, auth, clients>>

\* ensureMutationsFlushed(), called by p: resolved at once when nothing is
\* mutating, else subscribed to the MutationCache
EnsureMutationsFlushed(p) ==
    /\ op[p].pc = "idle" /\ ~op[p].mutation
    /\ op' = [op EXCEPT ![p] =
                IF isMutating THEN [@ EXCEPT !.kind = "flush", !.pc = "flush_wait"]
                ELSE Returned([@ EXCEPT !.kind = "flush"], "true", NoRecord)]
    /\ UNCHANGED <<queryCache, server, batch, watch, hist, read, auth, clients>>

\* the MutationCache notifies the subscriber of p's ensureMutationsFlushed
\* and nothing is mutating any more: unsubscribe and resolve
FlushResolve(p) ==
    /\ op[p].pc = "flush_wait"
    /\ ~isMutating
    /\ op' = [op EXCEPT ![p] = Returned(@, "true", NoRecord)]
    /\ UNCHANGED <<queryCache, server, batch, watch, hist, read, auth, clients>>

\* one caller updates or deletes, through the hook's mutation or on the
\* service directly, while another calls ensureMutationsFlushed
NextFlush ==
    LET Flusher == CHOOSE p \in Procs : p # Caller
    IN \/ MutateAsync(Caller)
       \/ \E data \in Payloads : CallUpdate(Caller, data)
       \/ UpdateApply(Caller)
       \/ \E resp \in {"throw", "empty", "data"} : UpdateSettle(Caller, resp)
       \/ \E id \in Ids \cup {Missing} : CallDelete(Caller, id)
       \/ DeleteApply(Caller)
       \/ \E resp \in {"throw", "errors", "empty", "ok"} : DeleteSettle(Caller, resp)
       \/ EnsureMutationsFlushed(Flusher)
       \/ FlushResolve(Flusher)

SpecFlush == InitDeleteList /\ [][NextFlush]_vars

\* C19: drain.  ensureMutationsFlushed does not resolve while a mutation is
\* in flight, a create, update, delete or upsert called on the service
\* directly whose transport call has not settled included.
C19_Drain ==
    [][\A p \in Procs :
          (op[p].pc # "done" /\ op'[p].pc = "done" /\ op'[p].kind = "flush")
          => ~\E q \in Procs :
                 /\ op[q].kind \in Mutations
                 /\ op[q].pc \in {"create_wait", "update_wait", "delete_wait", "upsert_wait"}]_vars

----------------------------------------------------------------------------
(* SpecOverlap: two callers mutate the same type and their calls overlap:  *)
(* the second begins once the first has applied its optimistic write, and  *)
(* the first's transport call settles only after the second has applied.   *)

NextOverlap ==
    LET Second == CHOOSE p \in Procs : p # Caller
        Applied(p) == op[p].pc \in {"create_wait", "update_wait", "delete_wait", "done"}
        Begin(p) ==
            \/ \E data \in Payloads, isNull \in BOOLEAN : CallCreate(p, data, isNull)
            \/ \E data \in Payloads : CallUpdate(p, data)
            \/ \E id \in Ids \cup {Missing} : CallDelete(p, id)
        Apply(p) ==
            \/ \E uuid \in Ids : CreateApply(p, uuid)
            \/ UpdateApply(p)
            \/ DeleteApply(p)
        Settle(p) ==
            \/ \E resp \in {"throw", "empty", "data"}, sid \in Ids : CreateSettle(p, resp, sid)
            \/ \E resp \in {"throw", "empty", "data"} : UpdateSettle(p, resp)
            \/ \E resp \in {"throw", "errors", "empty", "ok"} : DeleteSettle(p, resp)
    IN \/ Begin(Caller)
       \/ Apply(Caller)
       \/ Applied(Caller) /\ op[Caller].pc # "done" /\ Begin(Second)
       \/ Apply(Second)
       \/ Applied(Second) /\ Settle(Caller)
       \/ Settle(Second)

SpecOverlap == InitDeleteList /\ [][NextOverlap]_vars

\* C20: overlapping failed mutations restore the initial state.  When two
\* overlapping mutations of the type have both failed and rolled back, in
\* either completion order, every key holds the value it had before the
\* first of them began.
C20_OverlapRestores ==
    (\A p \in Procs : op[p].pc = "done" /\ op[p].kind \in Mutations
                          /\ op[p].resp \in {"throw", "errors"})
        => DataOf(queryCache) = op[Caller].pre

\* C22: reconciliation after a discarding rollback.  When a mutation M2 has
\* committed and an overlapping mutation M1, whose snapshot was taken before
\* M2's optimistic write, then fails and rolls back, every list key that
\* held M2's record either still holds it or is marked invalidated, so that
\* the next list() of that key goes to the backend.
C22_ReconciledAfterRollback ==
    [][\A q \in Procs \ {Caller} :
          (/\ op[Caller].pc # "done" /\ op'[Caller].pc = "done"
           /\ \/ op'[Caller].kind \in {"create", "update"}
                    /\ op'[Caller].resp \in {"throw", "empty"}
              \/ op'[Caller].kind = "delete" /\ op'[Caller].resp \in {"throw", "errors"}
           /\ op[q].pc = "done" /\ op[q].kind \in {"create", "update"}
           /\ op[q].resp = "data")
          => \A k \in ListKeys :
                (queryCache[k].t = "list" /\ HasId(queryCache[k].l, op[q].id))
                => \/ queryCache'[k].t = "list" /\ HasId(queryCache'[k].l, op[q].id)
                   \/ queryCache'[k].inv]_vars

----------------------------------------------------------------------------
(* SpecDeleteWatch: a caller deletes a record while a watch is mounted, on *)
(* the record's item key (useItemHook) or on the top-level list (useHook), *)
(* and its feed emits.  The confirmation get of the item watch is the call *)
(* op[Caller]; the delete is the call of the other caller.                 *)

NextDeleteWatch ==
    LET Deleter == CHOOSE p \in Procs : p # Caller
    IN \/ \E key \in {TopKey} \cup {itemKey(i) : i \in Ids} : Mount(key)
       \/ \E items \in Emissions, synced \in BOOLEAN :
             watch.key = TopKey /\ Emit(items, synced)
       \/ \E items \in Emissions, synced \in BOOLEAN, throttled \in BOOLEAN :
             isItemKeyForModel(watch.key) /\ ItemEmit(items, synced, throttled)
       \/ \E resp \in {"throw", "data"}, item \in {NoRecord} \cup {server[i] : i \in Ids} :
             ItemConfirmSettle(resp, item)
       \/ \E id \in Ids : CallDelete(Deleter, id)
       \/ DeleteApply(Deleter)
       \/ \E resp \in {"throw", "errors", "empty", "ok"} : DeleteSettle(Deleter, resp)

SpecDeleteWatch == InitItemWatch /\ [][NextDeleteWatch]_vars

\* C21: a delete is not undone by a concurrent real-time merge.  When
\* delete(id) succeeded on the backend and returns true, at its return the
\* item key of id is null and no list key of the type holds a record with
\* that id, also when an emission of a single-item watch or of a collection
\* watch carrying the old record was merged between the optimistic removal
\* and the commit.
C21_DeleteNotUndone ==
    [][\A p \in Procs :
          (/\ op[p].kind = "delete" /\ op[p].pc = "delete_wait"
           /\ op'[p].pc = "done" /\ op'[p].resp = "ok" /\ op'[p].ret = "true")
          => /\ GetQueryData(queryCache', itemKey(op[p].id)) = Null
             /\ \A k \in ListKeys : ~HasId(queryCache'[k].l, op[p].id)]_vars

----------------------------------------------------------------------------
(* Claims about get and create, checked under Spec *)

\* C29: get fan-out.  When get(id) has fetched from the backend a record
\* whose id is id, the item key holds that record and every related list key
\* that existed, the top-level list included, holds it: in place of the entry
\* with that id if there was one, appended otherwise.
C29_GetFanOut ==
    [][\A p \in Procs :
          (op[p].kind = "get" /\ op[p].pc = "get_wait" /\ op'[p].pc = "done"
              /\ op'[p].item # NoRecord /\ op'[p].item.id = op[p].id)
          => /\ GetQueryData(queryCache', itemKey(op[p].id)) = Item(op'[p].item)
             /\ \A k \in findRelatedQueryKeys(queryCache) :
                   GetQueryData(queryCache', k)
                       = List(GetList(GetQueryData(queryCache, k), op[p].id, op'[p].item))]_vars

----------------------------------------------------------------------------
(* createList: optimistic apply of a batch, parallel transport creates.    *)
(* previousDataMap is read only by the outer catch, which no failure of a  *)
(* transport create reaches: each create's promise catches its own error   *)
(* and resolves to null.  batch.items holds preparedItems.                 *)

\* the cache after the batch's optimistic apply: the related lists first,
\* then each item key
CreateListOptimistic(c, preparedItems) ==
    LET keys == findRelatedQueryKeys(c)
        itemsToAdd(k) == SelectSeq(preparedItems, LAMBDA newItem : BelongsToRelation(newItem, k))
        c1 == [k \in Keys |->
                 IF k \in keys /\ IsRelationalQuery(k)
                 THEN SetQueryData(c, k, List(OldItems(GetQueryData(c, k)) \o itemsToAdd(k)))[k]
                 ELSE IF k \in keys /\ Len(k) < 3 /\ ~(Len(k) >= 2 /\ k[2] = "currentId")
                 THEN SetQueryData(c, k, List(OldItems(GetQueryData(c, k)) \o preparedItems))[k]
                 ELSE c[k]]
    IN [k \in Keys |->
          IF \E j \in 1..Len(preparedItems) : k = itemKey(preparedItems[j].id)
          THEN LET last == CHOOSE j \in 1..Len(preparedItems) :
                              /\ k = itemKey(preparedItems[j].id)
                              /\ \A m \in j + 1..Len(preparedItems) :
                                    k # itemKey(preparedItems[m].id)
               IN SetQueryData(c1, k, Item(preparedItems[last]))[k]
          ELSE c1[k]]

\* createList(dataList): an empty list returns []; otherwise, after the auth
\* await, the optimistic apply, and the transport creates are issued
CallCreateList(dataList) ==
    /\ batch.pc = "idle"
    /\ IF Len(dataList) = 0
       THEN /\ batch' = [batch EXCEPT !.pc = "done", !.ret = "results",
                                      !.pre = DataOf(queryCache)]
            /\ queryCache' = queryCache
       ELSE /\ batch' = [batch EXCEPT !.pc = "creating", !.items = dataList,
                                      !.ids = [j \in 1..Len(dataList) |-> dataList[j].id],
                                      !.resps = [j \in 1..Len(dataList) |-> "pending"],
                                      !.pre = DataOf(queryCache)]
            /\ queryCache' = CreateListOptimistic(queryCache, dataList)
    /\ UNCHANGED <<server, op, watch, hist, read, auth, clients>>

\* the transport create of items[i] settles: it throws, answers no data, or
\* answers the created record, which is written under its item key; the
\* promise resolves to the record or to null
CreateListItemSettle(i, resp) ==
    /\ batch.pc = "creating"
    /\ i \in 1..Len(batch.items)
    /\ batch.resps[i] = "pending"
    /\ resp = "data" => server[batch.ids[i]] = NoRecord
    /\ LET createdItem == ServerCreate(batch.items[i], batch.ids[i])
       IN IF resp = "data"
          THEN /\ server' = [server EXCEPT ![batch.ids[i]] = createdItem]
               /\ queryCache' = SetQueryData(queryCache, itemKey(batch.ids[i]), Item(createdItem))
               /\ batch' = [batch EXCEPT !.resps[i] = "ok", !.success = Append(@, batch.ids[i])]
          ELSE /\ server' = server
               /\ queryCache' = queryCache
               /\ batch' = [batch EXCEPT !.resps[i] = "failed",
                                         !.failed = Append(@, batch.ids[i])]
    /\ UNCHANGED <<op, watch, hist, read, auth, clients>>

\* Promise.all has resolved: for each relation field of the batch (the Map
\* keeps the value of the last item carrying it) the relation's queries and
\* the model's queries are invalidated; results are returned
CreateListFinish ==
    /\ batch.pc = "creating"
    /\ AllSettled
    /\ LET carrying == {j \in 1..Len(batch.items) : batch.items[j].dailyId # Missing}
           value == batch.items[CHOOSE j \in carrying : \A m \in carrying : m <= j].dailyId
       IN queryCache' = IF carrying = {} THEN queryCache
                        ELSE InvalidateAll(queryCache,
                                           {<<ModelName, "Daily", value>>, <<ModelName>>})
    /\ batch' = [batch EXCEPT !.pc = "done", !.ret = "results"]
    /\ UNCHANGED <<server, op, watch, hist, read, auth, clients>>

----------------------------------------------------------------------------
(* SpecCreateList: one caller runs one createList of records with          *)
(* different ids, all of one relation or of none.                          *)

NextCreateList ==
    \/ \E ids \in {l \in IdLists : \A i, j \in 1..Len(l) : i # j => l[i] # l[j]},
          r \in Rels \cup {Missing} :
          CallCreateList([j \in 1..Len(ids) |->
                            [id |-> ids[j], dailyId |-> r, dailyPlanId |-> Missing,
                             updatedAt |-> Missing, title |-> "y"]])
    \/ \E i \in 1..MaxBatch, resp \in {"throw", "empty", "data"} : CreateListItemSettle(i, resp)
    \/ CreateListFinish

SpecCreateList == InitDeleteList /\ [][NextCreateList]_vars

\* C23: createList per-item rollback.  After createList returned, for each
\* item whose transport create failed (a throw, or an empty data payload) the
\* item key holds the value it held before the call and no list key holds
\* the item's optimistic record, while each item whose create succeeded is
\* cached under its item key and kept in the lists it was added to.
C23_CreateListItemRollback ==
    (batch.pc = "done" /\ batch.items # <<>>)
        => \A i \in 1..Len(batch.items) :
              IF batch.resps[i] = "failed"
              THEN /\ GetQueryData(queryCache, itemKey(batch.ids[i])) = batch.pre[itemKey(batch.ids[i])]
                   /\ \A k \in ListKeys :
                         ~\E j \in 1..Len(queryCache[k].l) : queryCache[k].l[j] = batch.items[i]
              ELSE /\ GetQueryData(queryCache, itemKey(batch.ids[i])) = Item(server[batch.ids[i]])
                   /\ \A k \in ListKeys :
                         (queryCache[k].t # "none" /\ CreateTouches(k, batch.items[i]))
                             => HasId(queryCache[k].l, batch.ids[i])

----------------------------------------------------------------------------
(* useSigletoneHook's auto-create effect.  Each caller is one mounted view *)
(* of the singleton; currentId has resolved to SingletonId.                *)

\* the effect runs after a render that saw no item, no error and no load in
\* progress: unless the view's ref already names currentId it records the id
\* and starts upsertCurrent({}), which runs up to its first await
AutoCreateEffect(p) ==
    /\ op[p].pc \in {"idle", "done"}
    /\ GetQueryData(queryCache, itemKey(SingletonId)).t = "null"
    /\ op[p].attempted # SingletonId
    /\ op' = [op EXCEPT ![p] = [IdleOp EXCEPT !.attempted = SingletonId,
                                              !.kind = "upsertCurrent", !.pc = "uc_id",
                                              !.data = NoRecord,
                                              !.pre = DataOf(queryCache)]]
    /\ UNCHANGED <<queryCache, server, batch, watch, hist, read, auth, clients>>

\* upsertCurrent has returned (its outer catch turns every failure into
\* null, so the effect's own catch, which would clear the ref, is never
\* entered): getCurrent({ forceRefresh: true }) is issued
AutoCreateRefresh(p) ==
    /\ op[p].kind = "upsertCurrent"
    /\ op[p].pc = "done"
    /\ op[p].attempted = SingletonId
    /\ queryCache' = GetCacheCheck(queryCache, SingletonId, TRUE)
    /\ op' = [op EXCEPT ![p] = [@ EXCEPT !.kind = "get", !.pc = "get_wait",
                                         !.id = SingletonId]]
    /\ UNCHANGED <<server, batch, watch, hist, read, auth, clients>>

NextAutoCreate ==
    \E p \in Procs :
        \/ AutoCreateEffect(p)
        \/ \E resolved \in BOOLEAN : UcResolveId(p, resolved)
        \/ \E resp \in {"throw", "data"}, item \in {NoRecord} \cup {server[i] : i \in Ids} :
              GetSettle(p, resp, item)
        \/ UpdateApply(p)
        \/ \E resp \in {"throw", "empty", "data"} : UpdateSettle(p, resp)
        \/ \E uuid \in Ids : CreateApply(p, uuid)
        \/ \E resp \in {"throw", "empty", "data"}, sid \in Ids : CreateSettle(p, resp, sid)
        \/ AutoCreateRefresh(p)

\* the views have rendered with the item query settled on null
InitAutoCreate ==
    /\ server \in InitServers
    /\ queryCache \in {CacheOver(server, [i \in Ids |-> IF i = SingletonId THEN "null" ELSE "none"],
                                 topSt, [r \in Rels |-> "none"], "none") :
                          topSt \in {"none", "list"}}
    /\ op = [p \in Procs |-> IdleOp]
    /\ batch = IdleBatch
    /\ watch = IdleWatch
    /\ hist = NoHist
    /\ read = IdleRead
    /\ auth = IdleAuth
    /\ clients = IdleClients

SpecAutoCreate == InitAutoCreate /\ [][NextAutoCreate]_vars

\* the create of p's attempt was rejected by the transport / was stored
CreateRejected(p) == op[p].branch = "sync" /\ op[p].resp \in {"throw", "empty"}

CreateStored(p) == op[p].branch = "sync" /\ op[p].resp = "data"

\* p's attempt is over: create-then-refresh has run to its end
AttemptOver(p) == op[p].kind = "get" /\ op[p].pc = "done"

\* C27: auto-create at most once.  A view issues a create-then-refresh
\* attempt for the singleton id only if every attempt issued before it, by
\* any view bound to the singleton, has failed; in particular never while
\* another attempt for the id is in flight.
C27_AutoCreateAtMostOnce ==
    [][\A p \in Procs :
          (op[p].pc \in {"idle", "done"} /\ op'[p].pc = "uc_id")
          => \A q \in Procs : op[q].attempted = SingletonId => CreateRejected(q)]_vars

\* C28: auto-create re-arm.  Once an attempt whose create the transport
\* rejected is over, the view's policy is armed again (its ref no longer
\* names the id); after an attempt whose create succeeded it stays disarmed.
C28_ReArmedAfterFailure ==
    \A p \in Procs :
        AttemptOver(p) =>
            /\ CreateRejected(p) => op[p].attempted # SingletonId
            /\ CreateStored(p) => op[p].attempted = SingletonId

----------------------------------------------------------------------------
(* SpecCreate: one caller creates, updates or deletes a record that may    *)
(* carry either relation field, over a cache holding keys of every kind.   *)

\* earlier list, customList and get calls have left the top-level list, the
\* filtered list, the relation-scoped lists of both relations and the items;
\* a singleton hook has left the currentId query, another model's service
\* its list
InitCreate ==
    /\ server \in InitServers
    /\ queryCache \in
          {[k \in Keys |->
               IF k \in {PlanKey(r) : r \in Rels} THEN Entry(planSt, <<>>)
               ELSE IF k = CurrentIdKey THEN Entry(otherSt, <<>>)
               ELSE IF k = OtherKey THEN Entry(IF otherSt = "undef" THEN "list" ELSE "none", <<>>)
               ELSE CacheOver(server,
                              [i \in Ids |-> IF server[i] # NoRecord THEN itemSt ELSE "none"],
                              topSt, [r \in Rels |-> relSt], topSt)[k]] :
              topSt \in {"none", "list"}, relSt \in {"none", "list"},
              planSt \in {"none", "list"}, itemSt \in {"none", "item"},
              otherSt \in {"none", "undef"}}
    /\ op = [p \in Procs |-> IdleOp]
    /\ batch = IdleBatch
    /\ watch = IdleWatch
    /\ hist = NoHist
    /\ read = IdleRead
    /\ auth = IdleAuth
    /\ clients = IdleClients

NextCreate ==
    \/ \E data \in PlanPayloads : CallCreate(Caller, data, FALSE)
    \/ \E uuid \in Ids : CreateApply(Caller, uuid)
    \/ \E resp \in {"throw", "empty", "data"}, sid \in Ids : CreateSettle(Caller, resp, sid)
    \/ \E data \in PlanPayloads : CallUpdate(Caller, data)
    \/ UpdateApply(Caller)
    \/ \E resp \in {"throw", "empty", "data"} : UpdateSettle(Caller, resp)
    \/ \E id \in Ids : CallDelete(Caller, id)
    \/ DeleteApply(Caller)
    \/ \E resp \in {"throw", "errors", "empty", "ok"} : DeleteSettle(Caller, resp)

SpecCreate == InitCreate /\ [][NextCreate]_vars

\* C30: create's optimistic apply.  Right after the optimistic apply the
\* item key holds the new record; every cached list key of arity at most 2
\* other than the singleton marker, and every cached relation-scoped key
\* whose relation id equals the record's field of that relation (dailyId for
\* Daily, dailyPlanId for DailyPlan), has the record appended; no other
\* list key is changed.
C30_CreateOptimisticApply ==
    [][(op[Caller].pc = "create_apply" /\ op'[Caller].pc = "create_wait") =>
          LET newItem == op'[Caller].item
              Appended(k) ==
                  queryCache'[k].t = "list"
                      /\ queryCache'[k].l = Append(OldItems(GetQueryData(queryCache, k)), newItem)
          IN /\ queryCache'[itemKey(newItem.id)].t = "item"
             /\ queryCache'[itemKey(newItem.id)].l = <<newItem>>
             /\ \A k \in Keys :
                   (queryCache[k].t # "none" /\ ~isItemKeyForModel(k)) =>
                       IF k[1] # ModelName THEN queryCache'[k] = queryCache[k]
                       ELSE IF Len(k) <= 2
                       THEN IF k = CurrentIdKey THEN queryCache'[k] = queryCache[k]
                            ELSE Appended(k)
                       ELSE IF \E r \in Rels : \/ k = RelKey(r) /\ newItem.dailyId = r
                                               \/ k = PlanKey(r) /\ newItem.dailyPlanId = r
                       THEN Appended(k)
                       ELSE queryCache'[k] = queryCache[k]]_vars

----------------------------------------------------------------------------
(* Claims about the optimistic apply of update and upsert, checked under   *)
(* Spec                                                                    *)

\* C31: update's optimistic apply.  Right after the optimistic apply of
\* update or upsert the item key holds the prior item merged with the
\* payload (the payload alone when there was no prior item); in each related
\* list key the entry with the id is replaced by its merge with the payload;
\* where the id is absent the record is appended to the top-level list key
\* only, and every other list key keeps its contents.
C31_UpdateOptimisticApply ==
    [][(\/ op[Caller].pc = "update_apply" /\ op'[Caller].pc = "update_wait"
        \/ op[Caller].pc = "upsert_apply" /\ op'[Caller].pc = "upsert_wait") =>
          LET id == op[Caller].id
              payload == op[Caller].data
              prior == queryCache[itemKey(id)]
              merged == IF prior.t = "item" THEN Merge(prior.l[1], payload) ELSE payload
          IN /\ queryCache'[itemKey(id)].t = "item"
             /\ queryCache'[itemKey(id)].l = <<merged>>
             /\ \A k \in Keys :
                   (queryCache[k].t = "list" /\ k # CurrentIdKey) =>
                       LET old == queryCache[k].l
                           new == queryCache'[k].l
                       IN IF \E j \in 1..Len(old) : old[j].id = id
                          THEN /\ Len(new) = Len(old)
                               /\ \A j \in 1..Len(old) :
                                     new[j] = IF old[j].id = id THEN Merge(old[j], payload)
                                              ELSE old[j]
                          ELSE IF Len(k) = 1 THEN new = Append(old, merged)
                          ELSE new = old]_vars

\* an update of a record no list held: the top-level
\* list got the record appended while a relation-scoped list kept its contents
C31_Witness ==
    /\ op[Caller].pc \in {"update_wait", "upsert_wait"}
    /\ queryCache[TopKey].t = "list"
    /\ \E j \in 1..Len(queryCache[TopKey].l) : queryCache[TopKey].l[j].id = op[Caller].id
    /\ \E r \in Rels :
          /\ queryCache[RelKey(r)].t = "list"
          /\ \A j \in 1..Len(queryCache[RelKey(r)].l) : queryCache[RelKey(r)].l[j].id # op[Caller].id
    /\ server[op[Caller].id] = NoRecord

\* C34: the related-key resolver.  findRelatedQueryKeys, evaluated when a
\* mutation applies, returns exactly the keys cached at that time whose
\* first element is the model's name, without the item keys and without
\* the singleton marker; no key of another model is returned.
C34_RelatedKeyResolver ==
    [][(\/ op[Caller].pc = "update_apply" /\ op'[Caller].pc = "update_wait"
        \/ op[Caller].pc = "delete_apply" /\ op'[Caller].pc = "delete_wait") =>
          op'[Caller].keys =
              {k \in Keys : /\ queryCache[k].t # "none"
                            /\ k[1] = ModelName
                            /\ k \notin {itemKey(i) : i \in Ids}
                            /\ k # CurrentIdKey}]_vars

\* a mutation has resolved its related keys over a cache that holds an item
\* key, the singleton marker and another model's list
C34_Witness ==
    /\ op[Caller].pc \in {"update_wait", "delete_wait"}
    /\ op[Caller].keys # {}
    /\ queryCache[CurrentIdKey].t = "undef"
    /\ queryCache[OtherKey].t = "list"
    /\ \E i \in Ids : i # op[Caller].id /\ queryCache[itemKey(i)].t = "item"

\* C35: filtered lists hold only matching records.  FilterKey is the list
\* of the filter {title: {eq: "x"}}: in every reachable state every record
\* it holds has that title.
C35_FilteredListsMatch ==
    queryCache[FilterKey].t = "list" =>
        \A j \in 1..Len(queryCache[FilterKey].l) : queryCache[FilterKey].l[j].title = "x"

\* C36: no duplicate ids in lists.  In every reachable state no cached list
\* holds two records with the same id.
C36_NoDuplicateIds ==
    \A k \in Keys :
        queryCache[k].t = "list" =>
            \A i, j \in 1..Len(queryCache[k].l) :
                i # j => queryCache[k].l[i].id # queryCache[k].l[j].id

\* C37: mutation frame.  A step of a create, update, delete or upsert of
\* the record with id x changes the item key of no other id, and in every
\* key that holds a list before and after it leaves the entries of the
\* other ids and their order as they were.
C37_MutationFrame ==
    [][\A p \in Procs :
          (op'[p] # op[p] /\ op'[p].kind \in Mutations) =>
              LET x == IF op'[p].id # Missing THEN op'[p].id ELSE op'[p].data.id
                  Others(l) == SelectSeq(l, LAMBDA r : r.id # x)
              IN /\ \A y \in Ids \ {x} :
                       GetQueryData(queryCache', itemKey(y)) = GetQueryData(queryCache, itemKey(y))
                 /\ \A k \in Keys :
                       (queryCache[k].t = "list" /\ queryCache'[k].t = "list")
                           => Others(queryCache'[k].l) = Others(queryCache[k].l)]_vars

----------------------------------------------------------------------------
(* SpecConfig: the calls that set the service's auth mode and the calls of *)
(* query.ts that select the active QueryClient                             *)

\* setAuthMode, withAuthMode and the operations of a service made by
\* createAmplifyService(modelName, "apiKey")
AuthCalls ==
    LET AuthModes == {"apiKey", "iam", "userPool"}
        \* service.setAuthMode(authMode)
        SetAuthMode(authMode) ==
            auth' = [auth EXCEPT !.currentAuthMode = authMode, !.own = authMode,
                                 !.call = "setAuthMode"]
        \* service.withAuthMode(authMode): clonedService = { ...service } holds
        \* the same closures, and clonedService.setAuthMode writes the variable
        \* they share
        WithAuthMode(authMode) ==
            auth' = [auth EXCEPT !.currentAuthMode = authMode, !.clone = authMode,
                                 !.call = "withAuthMode"]
        \* an operation of the original or of the clone, called without an
        \* authMode option: authMode = options?.authMode || currentAuthMode
        Operation(by) ==
            /\ by = "clone" => auth.clone # "none"
            /\ auth' = [auth EXCEPT !.by = by, !.used = auth.currentAuthMode,
                                    !.call = "operation"]
    IN /\ \/ \E authMode \in AuthModes : SetAuthMode(authMode)
          \/ \E authMode \in AuthModes : WithAuthMode(authMode)
          \/ \E by \in {"original", "clone"} : Operation(by)
       /\ UNCHANGED <<queryCache, server, op, batch, watch, hist, read, clients>>

\* attachQueryClient, detachQueryClient and configure of query.ts
ClientCalls ==
    LET NoClient == <<"null", 0>>
        AttachQueryClient(externalClient) ==
            clients' =
                IF externalClient = NoClient THEN clients
                ELSE IF clients.queryClient = externalClient
                THEN [clients EXCEPT !.attached = externalClient]
                ELSE [clients EXCEPT !.queryClient = externalClient,
                                     !.isExternalClientAttached = TRUE,
                                     !.attached = externalClient]
        DetachQueryClient ==
            clients' =
                IF ~clients.isExternalClientAttached
                THEN [clients EXCEPT !.attached = <<"none", 0>>]
                ELSE [clients EXCEPT !.queryClient = clients.internalQueryClient,
                                     !.isExternalClientAttached = FALSE,
                                     !.attached = <<"none", 0>>]
        \* configure({ queryClientConfig }); "none": the option is not given
        Configure(queryClientConfig) ==
            clients' =
                IF queryClientConfig # "none" /\ queryClientConfig # clients.config
                       /\ clients.made < MaxConfigure
                THEN LET created == <<"internal", clients.made + 1>>
                     IN [clients EXCEPT !.config = queryClientConfig,
                                        !.made = @ + 1,
                                        !.internalQueryClient = created,
                                        !.queryClient =
                                            IF clients.isExternalClientAttached THEN @
                                            ELSE created]
                ELSE clients
    IN /\ \/ \E externalClient \in {NoClient, <<"external", 1>>, <<"external", 2>>}
                                      \cup {<<"internal", n>> : n \in 0..clients.made} :
                AttachQueryClient(externalClient)
          \/ DetachQueryClient
          \/ \E queryClientConfig \in {"none", "c0", "c1"} : Configure(queryClientConfig)
       /\ UNCHANGED <<queryCache, server, op, batch, watch, hist, read, auth>>

NextConfig == AuthCalls \/ ClientCalls

SpecConfig == InitRead /\ [][NextConfig]_vars

\* C38: withAuthMode does not affect the original.  A call of withAuthMode
\* leaves the mode getAuthMode returns on the original as it was; an
\* operation of the original uses the original's own mode, an operation of
\* the returned service the mode it was made with.
C38_WithAuthModeFrame ==
    [][/\ (auth'.call = "withAuthMode" /\ auth' # auth)
             => auth'.currentAuthMode = auth.currentAuthMode
       /\ (auth'.call = "operation" /\ auth' # auth)
             => auth'.used = IF auth'.by = "original" THEN auth.own ELSE auth.clone]_vars

\* C40: active query client selection.  After any sequence of
\* attachQueryClient, detachQueryClient and configure calls the active
\* client is the client most recently attached while one is attached, and
\* the current internal client otherwise.
C40_ActiveClient ==
    clients.queryClient =
        IF clients.attached # <<"none", 0>> THEN clients.attached
        ELSE clients.internalQueryClient

----------------------------------------------------------------------------
(* SpecItemLive: a single-item watch that stays mounted while another      *)
(* client deletes records on the backend; the transport answers every      *)
(* confirmation get with what the backend stores.                          *)

NextItemLive ==
    LET \* a deletion made by another client: only the backend changes; no
        \* emission has been handled since
        RemoteDelete(id) ==
            /\ server[id] # NoRecord
            /\ server' = [server EXCEPT ![id] = NoRecord]
            /\ hist' = [hist EXCEPT !.act = "none"]
            /\ UNCHANGED <<queryCache, op, batch, watch, read, auth, clients>>
        \* the handler's async function has run to its end
        ConfirmReturn ==
            /\ op[Caller].kind = "confirm" /\ op[Caller].pc = "done"
            /\ op' = [op EXCEPT ![Caller] = IdleOp]
            /\ UNCHANGED <<queryCache, server, batch, watch, hist, read, auth, clients>>
    IN \/ \E id \in Ids : Mount(itemKey(id))
       \/ \E id \in Ids : RemoteDelete(id)
       \/ \E items \in Emissions, synced \in BOOLEAN, throttled \in BOOLEAN :
             ItemEmit(items, synced, throttled)
       \/ ItemConfirmSettle("data", server[op[Caller].id])
       \/ ConfirmReturn

\* the confirmation get, once issued, is answered
SpecItemLive ==
    /\ InitItemWatch
    /\ [][NextItemLive]_vars
    /\ WF_vars(ItemConfirmSettle("data", server[op[Caller].id]))

\* C39: deletion is eventually reflected by the single-item watch.  While
\* the watch stays mounted and the transport keeps answering, once the
\* record is deleted on the backend and the feed has delivered a synced
\* emission that lacks it, the item key is eventually null.
C39_DeletionReflected ==
    (/\ watch.mounted
     /\ isItemKeyForModel(watch.key)
     /\ server[watch.key[3]] = NoRecord
     /\ hist.act \in {"confirm", "throttled"})
        ~> (GetQueryData(queryCache, watch.key) = Null)

====
